---- MODULE Spec2Model ----
(***************************************************************************)
(* Model of the transaction-history pipeline of the Fluid statement        *)
(* generator: TransactionHistoryFetcher.fetchForPositions, the paginated   *)
(* fetchVaultEvents loop it drives against the Etherscan log API, and the  *)
(* LogOperate decoder decodeEvent.                                         *)
(*                                                                         *)
(* One behaviour is one call of fetchForPositions.  A step is what runs    *)
(* between two suspension points of the async code: the call itself up to  *)
(* the first `await fetch`, the continuation after a response, and the     *)
(* continuation after a _delay timer.                                      *)
(***************************************************************************)
EXTENDS Integers, Sequences, FiniteSets, TLC

\* ------------------------------------------------------------------------
\* Program constants
\* ------------------------------------------------------------------------
MAX_RESULTS_PER_PAGE == 1000
REQUEST_DELAY_MS == 220
RATE_LIMIT_DELAY_MS == 1000
DATA_WORDS == 5
DEFAULT_DECIMALS == 18

\* ------------------------------------------------------------------------
\* Bounds of the model
\* ------------------------------------------------------------------------
\* Width of an ABI word in bits (256 in the EVM; TLC integers are 32 bit).
WordBits == 6
\* Request counters saturate here, so that an endless retry loop is a cycle.
MaxCount == 3
\* Longest chain of logs enumerated with free content.
MaxChain == 2

WordMod == 2 ^ WordBits
Min(a, b) == IF a < b THEN a ELSE b
Max(a, b) == IF a > b THEN a ELSE b
Sat(n) == Min(n + 1, MaxCount)

\* ------------------------------------------------------------------------
\* Pure functions of TransactionHistoryFetcher
\* ------------------------------------------------------------------------

\* Variant: the sign bit alone is subtracted, as in a sign-magnitude reading.
decodeInt256_SignMagnitude(val) ==
  LET MAX_INT256 == 2 ^ (WordBits - 1) - 1
  IN  IF val > MAX_INT256 THEN -(val - (MAX_INT256 + 1)) ELSE val

\* BigInt('0x' + hexWord) followed by the two's complement fold.
decodeInt256(val) ==
  LET MAX_INT256 == 2 ^ (WordBits - 1) - 1
  IN  IF val > MAX_INT256 THEN val - WordMod ELSE val

\* parseInt(s, 16) on the hexadecimal digits of s, most significant first.
RECURSIVE parseInt16(_)
parseInt16(digits) ==
  IF digits = << >> THEN 0
  ELSE parseInt16(SubSeq(digits, 1, Len(digits) - 1)) * 16 + digits[Len(digits)]

\* The float parsed from the decimal `${intPart}.${fracStr}`, denoted by that
\* decimal, units / 10^decimals: with 18 decimals the float itself is out of
\* the checker's integer range. _formatUnits below computes the float.
formatUnits(value, decimals) == [units |-> value, decimals |-> decimals]

\* prices[symbol] || 0
PriceOf(prices, symbol) ==
  IF symbol \in DOMAIN prices THEN prices[symbol] ELSE 0

Null == [isNull |-> TRUE, nftId |-> 0, rows |-> << >>]

WellFormed(data) ==
  /\ Len(data) >= DATA_WORDS
  /\ \A i \in 1..DATA_WORDS : data[i] \in 0..(WordMod - 1)

Abs(x) == IF x < 0 THEN -x ELSE x

CollateralRow(log, vaultInfo, prices, colAmt) ==
  LET isDeposit == colAmt > 0
      amount == formatUnits(Abs(colAmt), vaultInfo.supplyDecimals)
      price == PriceOf(prices, vaultInfo.supplySymbol)
      timestamp == parseInt16(log.timeStamp)
  IN  [date |-> timestamp * 1000,
       timestamp |-> timestamp,
       description |-> IF isDeposit THEN "Collateral Deposit"
                                    ELSE "Collateral Withdrawal",
       asset |-> vaultInfo.supplySymbol,
       amount |-> [neg |-> ~isDeposit, units |-> amount.units,
                   decimals |-> amount.decimals],
       symbol |-> vaultInfo.supplySymbol,
       usdValue |-> [units |-> amount.units * price,
                     decimals |-> amount.decimals],
       txHash |-> log.transactionHash,
       isRepayOrWithdraw |-> ~isDeposit]

\* Variant: the debt row is flagged on a borrow instead of a repayment.
DebtRow_FlagOnBorrow(log, vaultInfo, prices, debtAmt) ==
  LET isBorrow == debtAmt > 0
      amount == formatUnits(Abs(debtAmt), vaultInfo.borrowDecimals)
      price == PriceOf(prices, vaultInfo.borrowSymbol)
      timestamp == parseInt16(log.timeStamp)
  IN  [date |-> timestamp * 1000,
       timestamp |-> timestamp,
       description |-> IF isBorrow THEN "Margin Loan" ELSE "Loan Repayment",
       asset |-> vaultInfo.borrowSymbol,
       amount |-> [neg |-> ~isBorrow, units |-> amount.units,
                   decimals |-> amount.decimals],
       symbol |-> vaultInfo.borrowSymbol,
       usdValue |-> [units |-> amount.units * price,
                     decimals |-> amount.decimals],
       txHash |-> log.transactionHash,
       isRepayOrWithdraw |-> isBorrow]

DebtRow(log, vaultInfo, prices, debtAmt) ==
  LET isBorrow == debtAmt > 0
      amount == formatUnits(Abs(debtAmt), vaultInfo.borrowDecimals)
      price == PriceOf(prices, vaultInfo.borrowSymbol)
      timestamp == parseInt16(log.timeStamp)
  IN  [date |-> timestamp * 1000,
       timestamp |-> timestamp,
       description |-> IF isBorrow THEN "Margin Loan" ELSE "Loan Repayment",
       asset |-> vaultInfo.borrowSymbol,
       amount |-> [neg |-> ~isBorrow, units |-> amount.units,
                   decimals |-> amount.decimals],
       symbol |-> vaultInfo.borrowSymbol,
       usdValue |-> [units |-> amount.units * price,
                     decimals |-> amount.decimals],
       txHash |-> log.transactionHash,
       isRepayOrWithdraw |-> ~isBorrow]

\* Variant: an event without a collateral delta is taken for a no-op.
decodeEvent_NullWithoutCollateral(log, vaultInfo, prices) ==
  IF ~WellFormed(log.data) THEN Null
  ELSE
    LET nftId == log.data[2]
        colAmt == decodeInt256(log.data[3])
        debtAmt == decodeInt256(log.data[4])
        colRows == IF colAmt # 0
                   THEN << CollateralRow(log, vaultInfo, prices, colAmt) >>
                   ELSE << >>
        debtRows == IF debtAmt # 0
                    THEN << DebtRow(log, vaultInfo, prices, debtAmt) >>
                    ELSE << >>
        rows == colRows \o debtRows
    IN  IF Len(colRows) = 0 THEN Null
        ELSE [isNull |-> FALSE, nftId |-> nftId, rows |-> rows]

\* decodeEvent(log, vaultInfo, prices): Null, or the NFT id and the rows.
\* A payload shorter than five words, or a word that is not hexadecimal
\* (BigInt throws, the catch returns null), gives Null.
decodeEvent(log, vaultInfo, prices) ==
  IF ~WellFormed(log.data) THEN Null
  ELSE
    LET nftId == log.data[2]
        colAmt == decodeInt256(log.data[3])
        debtAmt == decodeInt256(log.data[4])
        colRows == IF colAmt # 0
                   THEN << CollateralRow(log, vaultInfo, prices, colAmt) >>
                   ELSE << >>
        debtRows == IF debtAmt # 0
                    THEN << DebtRow(log, vaultInfo, prices, debtAmt) >>
                    ELSE << >>
        rows == colRows \o debtRows
    IN  IF Len(rows) = 0 THEN Null
        ELSE [isNull |-> FALSE, nftId |-> nftId, rows |-> rows]

\* _inferDecimals(rawStr, formattedAmount): log10 of raw / formatted, which
\* is the decimals the formatted amount was scaled by, clamped to 0..18.
inferDecimals(rawStr, formattedAmount) ==
  IF rawStr = 0 \/ formattedAmount.units = 0 THEN DEFAULT_DECIMALS
  ELSE Max(0, Min(formattedAmount.decimals, 18))

getDecimals(pos, type) ==
  IF type = "supply"
  THEN inferDecimals(pos.supply, pos.formatted.collateral.amount)
  ELSE inferDecimals(pos.borrow, pos.formatted.debt.amount)


\* ------------------------------------------------------------------------
\* Inputs: the caller's positions, the price map and the log source
\* ------------------------------------------------------------------------
Vaults == {"vaultA", "vaultB"}

\* Token pair of each vault as formatPosition resolved it (TOKENS table).
VaultTokens ==
  [vaultA |-> [supplySymbol |-> "WETH", supplyName |-> "Wrapped Ether",
               supplyDecimals |-> 18,
               borrowSymbol |-> "USDC", borrowName |-> "USD Coin",
               borrowDecimals |-> 6],
   vaultB |-> [supplySymbol |-> "WBTC", supplyName |-> "Wrapped BTC",
               supplyDecimals |-> 8,
               borrowSymbol |-> "USDT", borrowName |-> "Tether USD",
               borrowDecimals |-> 6]]

\* A formatted position as FluidFetcher.formatPosition hands it over: the raw
\* supply and borrow, and the amounts scaled by the tokens' decimals.
PositionOf(nft, vault, supply, borrow) ==
  LET t == VaultTokens[vault]
  IN  [nftId |-> nft,
       supply |-> supply,
       borrow |-> borrow,
       vaultData |-> [vaultAddress |-> vault,
                      supplyToken |-> t.supplySymbol,
                      borrowToken |-> t.borrowSymbol],
       formatted |->
         [collateral |-> [amount |-> formatUnits(supply, t.supplyDecimals),
                          symbol |-> t.supplySymbol,
                          name |-> t.supplyName],
          debt |-> [amount |-> formatUnits(borrow, t.borrowDecimals),
                    symbol |-> t.borrowSymbol,
                    name |-> t.borrowName]]]

\* A position with collateral and debt.
Position(nft, vault) == PositionOf(nft, vault, 5, 3)

\* The caller owns NFT 1 and NFT 2; NFT 3 belongs to somebody else.
PositionLists ==
  { << Position(1, "vaultA") >>,
    << Position(1, "vaultA"), Position(2, "vaultA") >>,
    << Position(1, "vaultA"), Position(2, "vaultB") >>,
    << Position(2, "vaultB"), Position(1, "vaultA") >> }

\* fetchPrices result: WBTC has no price.
PriceMap == [WETH |-> 2500, USDC |-> 1, USDT |-> 1]

\* Two's complement encoding of a signed delta in one word.
Word(x) == IF x < 0 THEN x + WordMod ELSE x

\* One LogOperate log: data is the five words, timeStamp the hex digits.
Log(nft, colAmt, debtAmt, ts, hash) ==
  [data |-> << 10, nft, Word(colAmt), Word(debtAmt), 11 >>,
   timeStamp |-> ts,
   transactionHash |-> hash]

\* Hex digits of 100 (0x64), 200 (0xc8) and 300 (0x12c).
Ts100 == << 6, 4 >>
Ts200 == << 12, 8 >>
Ts300 == << 1, 2, 12 >>

\* Log contents the source may hold, before the hash is assigned.
LogChoices ==
  { Log(1, 1, 0, Ts100, 0),      \* deposit by NFT 1
    Log(1, -1, 1, Ts300, 0),     \* withdrawal and borrow by NFT 1
    Log(2, 0, -1, Ts200, 0),     \* repayment by NFT 2
    Log(2, 2, 1, Ts300, 0),      \* deposit and borrow by NFT 2
    Log(3, 1, 1, Ts200, 0),      \* another user's NFT
    Log(1, 0, 0, Ts200, 0),      \* no-op event
    [data |-> << 10, 1, 1 >>, timeStamp |-> Ts100,
     transactionHash |-> 0] }    \* truncated payload

RECURSIVE SeqsUpTo(_, _)
SeqsUpTo(S, n) ==
  IF n = 0 THEN { << >> }
  ELSE LET shorter == SeqsUpTo(S, n - 1)
       IN  shorter \cup { Append(s, x) : s \in { t \in shorter : Len(t) = n - 1 },
                                         x \in S }

\* Activity of other users filling the rest of a long chain.
Filler == Log(3, 1, 0, Ts100, 0)

\* A chain of n logs: head first, then filler.
LongChain(head, n) ==
  [i \in 1..n |-> IF i <= Len(head) THEN head[i] ELSE Filler]

ShortChains == SeqsUpTo(LogChoices, MaxChain)

LongChains ==
  { LongChain(<< Log(1, 1, 0, Ts100, 0) >>, n) :
      n \in { MAX_RESULTS_PER_PAGE - 1, MAX_RESULTS_PER_PAGE,
              MAX_RESULTS_PER_PAGE + 400, 2 * MAX_RESULTS_PER_PAGE } }

\* Three logs with timestamps 100, 300, 200 in encounter order: on one vault,
\* and spread over the two vaults.
ExampleChains ==
  { << << Log(1, 1, 0, Ts100, 0), Log(1, -1, 0, Ts300, 0),
          Log(1, 0, 1, Ts200, 0) >>, << >> >>,
    << << Log(1, 1, 0, Ts100, 0), Log(1, -1, 0, Ts300, 0) >>,
       << Log(2, 0, 1, Ts200, 0) >> >> }

\* Contents of the two vaults' event streams: at most MaxChain logs of free
\* content in all, or one long stream next to an empty one.
ChainPairs ==
  { c \in ShortChains \X ShortChains : Len(c[1]) + Len(c[2]) <= MaxChain }
    \cup (LongChains \X { << >> })
    \cup ExampleChains

\* The logs of one vault as the API serves them: the transaction hash
\* identifies the log (vault and position in the vault's event stream).
Hashed(vault, content) ==
  [i \in 1..Len(content) |->
     [content[i] EXCEPT !.transactionHash = << vault, i >>]]

\* Page `page` of a chain, `offset` logs per page.
PageOf(logs, page, offset) ==
  SubSeq(logs, (page - 1) * offset + 1, Min(page * offset, Len(logs)))


\* ------------------------------------------------------------------------
\* State
\* ------------------------------------------------------------------------
VARIABLES
  positions,        \* argument of fetchForPositions
  prices,           \* argument of fetchForPositions
  chain,            \* log source: the LogOperate logs of every vault
  pc,               \* fetchForPositions: "idle", "running", "done", "threw"
  vaultMap,         \* the Map of line 765, in insertion order
  fpc,              \* per vault, fetchVaultEvents: "idle", "awaiting",
                    \*   "delay", "returned", "threw"
  page,             \* per vault, local `page` of fetchVaultEvents
  allLogs,          \* per vault, local `allLogs` (the return value at the end)
  timer,            \* per vault, milliseconds of the pending _delay (0: none)
  allTransactions,  \* local of fetchForPositions
  result,           \* the ledger returned by fetchForPositions
  inflight,         \* requests sent and not yet answered
  nreq,             \* per vault, requests issued so far (saturating)
  npages,           \* per vault, successful pages received so far
  last,             \* per vault, kind of the last response
  issuedAfter,      \* what preceded the latest request: "none", "call",
                    \*   "delay" (a timer elapsed) or "response"
  fnPc,             \* a single function call: "none", "ready", "applied"
  fnArg,            \* its arguments
  fnRet,            \* its return value
  gpc,              \* App.handleGenerate: "idle" or the call it awaits
  form,             \* values of the form's inputs at the latest submit
  statusArea,       \* class of #statusArea: "hidden" or "shown"
  errorArea,        \* class of #errorArea
  errorText,        \* text of #errorText
  downloadArea,     \* class of #downloadArea
  currentPdfBlob,   \* App.currentPdfBlob
  appPositions,     \* App.positions, by NFT id
  hideTimers,       \* pending callbacks of the setTimeout in setLoading
  delivered,        \* the blob the latest handleDownload handed over
  run               \* the latest handleGenerate run and how it went

\* The page: the App object, its DOM elements and its pending timers.
ui == << gpc, form, statusArea, errorArea, errorText, downloadArea,
         currentPdfBlob, appPositions, hideTimers, delivered, run >>

vars == << positions, prices, chain, pc, vaultMap, fpc, page, allLogs, timer,
           allTransactions, result, inflight, nreq, npages, last,
           issuedAfter, fnPc, fnArg, fnRet, ui >>

inputs == << positions, prices, chain, fnPc, fnArg, fnRet, ui >>

Monitored(ps) == { ps[i].vaultData.vaultAddress : i \in 1..Len(ps) }

\* Nothing has been called yet.
NotCalled ==
  /\ pc = "idle"
  /\ vaultMap = << >>
  /\ fpc = << >>
  /\ page = << >>
  /\ allLogs = << >>
  /\ timer = << >>
  /\ allTransactions = << >>
  /\ result = << >>
  /\ inflight = << >>
  /\ nreq = << >>
  /\ npages = << >>
  /\ last = << >>
  /\ issuedAfter = "none"
  /\ gpc = "idle"
  /\ form = [walletAddress |-> [prefix |-> "", digits |-> 0, hex |-> TRUE,
                               checksum |-> TRUE],
             nftId |-> << >>, etherscanApiKey |-> ""]
  /\ statusArea = "hidden"
  /\ errorArea = "hidden"
  /\ errorText = ""
  /\ downloadArea = "hidden"
  /\ currentPdfBlob = [isNull |-> TRUE]
  /\ appPositions = << >>
  /\ hideTimers = 0
  /\ delivered = [isNull |-> TRUE]
  /\ run = [n |-> 0, source |-> "none", history |-> "none",
            outcome |-> "none"]

Init ==
  /\ positions \in PositionLists
  /\ prices = PriceMap
  /\ \E c \in ChainPairs :
       /\ chain = [vaultA |-> Hashed("vaultA", c[1]),
                   vaultB |-> Hashed("vaultB", c[2])]
       /\ \A v \in Vaults \ Monitored(positions) : chain[v] = << >>
  /\ NotCalled
  /\ fnPc = "none"
  /\ fnArg = << >>
  /\ fnRet = << >>

\* ------------------------------------------------------------------------
\* fetchForPositions: grouping, decoding, filtering, sorting
\* ------------------------------------------------------------------------
VaultIndex(vm, addr) ==
  IF \E i \in 1..Len(vm) : vm[i].vaultAddress = addr
  THEN CHOOSE i \in 1..Len(vm) : vm[i].vaultAddress = addr
  ELSE 0

\* Lines 766-782: one entry per vault address, built from the first position
\* on that vault; every position adds its NFT id.
RECURSIVE GroupByVault(_, _)
GroupByVault(ps, vm) ==
  IF ps = << >> THEN vm
  ELSE
    LET pos == Head(ps)
        vaultAddr == pos.vaultData.vaultAddress
        i == VaultIndex(vm, vaultAddr)
        fresh == [vaultAddress |-> vaultAddr,
                  info |-> [nftIds |-> {},
                            supplyToken |-> pos.vaultData.supplyToken,
                            borrowToken |-> pos.vaultData.borrowToken,
                            supplySymbol |-> pos.formatted.collateral.symbol,
                            borrowSymbol |-> pos.formatted.debt.symbol,
                            supplyName |-> pos.formatted.collateral.name,
                            borrowName |-> pos.formatted.debt.name,
                            supplyDecimals |-> getDecimals(pos, "supply"),
                            borrowDecimals |-> getDecimals(pos, "borrow")]]
        vm1 == IF i = 0 THEN Append(vm, fresh) ELSE vm
        j == VaultIndex(vm1, vaultAddr)
        vm2 == [vm1 EXCEPT ![j].info.nftIds = @ \cup {pos.nftId}]
    IN  GroupByVault(Tail(ps), vm2)

\* Variant: one set of owned NFT ids for all vaults.
OwnedIds_AllVaults(vm, v) == UNION { vm[w].info.nftIds : w \in 1..Len(vm) }

\* Line 794: the NFT ids an event of this vault is kept for.
OwnedIds(vm, v) == vm[v].info.nftIds

\* Variant: only the first row of a decoded event is pushed.
RowsOfLog_FirstRowOnly(log, info, owned, pr) ==
  LET decoded == decodeEvent(log, info, pr)
  IN  IF decoded.isNull THEN << >>
      ELSE IF decoded.nftId \notin owned THEN << >>
      ELSE << decoded.rows[1] >>

\* Lines 790-797 for one log: the rows it contributes to allTransactions.
RowsOfLog(log, info, owned, pr) ==
  LET decoded == decodeEvent(log, info, pr)
  IN  IF decoded.isNull THEN << >>
      ELSE IF decoded.nftId \notin owned THEN << >>
      ELSE decoded.rows

\* Lines 789-798: the rows of logs[lo..hi] in log order.
RECURSIVE RowsOfLogs(_, _, _, _, _, _)
RowsOfLogs(logs, lo, hi, info, owned, pr) ==
  IF lo > hi THEN << >>
  ELSE IF lo = hi THEN RowsOfLog(logs[lo], info, owned, pr)
  ELSE LET mid == (lo + hi) \div 2
       IN  RowsOfLogs(logs, lo, mid, info, owned, pr)
             \o RowsOfLogs(logs, mid + 1, hi, info, owned, pr)

\* Variant: ascending comparator.
Compare_Ascending(a, b) == a.timestamp - b.timestamp

\* The comparator of line 802: negative when a sorts before b.
Compare(a, b) == b.timestamp - a.timestamp

\* Array.prototype.sort is stable: a row goes behind every row that does
\* not compare greater than it.
RECURSIVE InsertRow(_, _)
InsertRow(sorted, row) ==
  IF sorted = << >> THEN << row >>
  ELSE IF Compare(sorted[Len(sorted)], row) <= 0
       THEN Append(sorted, row)
       ELSE Append(InsertRow(SubSeq(sorted, 1, Len(sorted) - 1), row),
                   sorted[Len(sorted)])

RECURSIVE SortTransactions(_)
SortTransactions(rows) ==
  IF rows = << >> THEN << >>
  ELSE InsertRow(SortTransactions(SubSeq(rows, 1, Len(rows) - 1)),
                 rows[Len(rows)])


\* ------------------------------------------------------------------------
\* The log API: responses to one request
\* ------------------------------------------------------------------------
NO_RECORDS == "No records found"

\* result.includes('rate limit') for the texts the API sends.
IncludesRateLimit(text) ==
  text \in { "Max rate limit reached",
             "Max calls per sec rate limit reached (5/sec)" }

StringResult(text) == [isString |-> TRUE, text |-> text, list |-> << >>]
ListResult(logs) == [isString |-> FALSE, text |-> "", list |-> logs]

NotOkResponse == [ok |-> FALSE, status |-> "", message |-> "",
                  result |-> ListResult(<< >>)]
NoRecordsResponse == [ok |-> TRUE, status |-> "0", message |-> NO_RECORDS,
                      result |-> ListResult(<< >>)]
RateLimitResponse == [ok |-> TRUE, status |-> "0", message |-> "NOTOK",
                      result |-> StringResult("Max rate limit reached")]
OtherErrorResponse == [ok |-> TRUE, status |-> "0", message |-> "NOTOK",
                       result |-> StringResult("Invalid API Key")]
PageResponse(logs) == [ok |-> TRUE, status |-> "1", message |-> "OK",
                       result |-> ListResult(logs)]

\* ------------------------------------------------------------------------
\* fetchVaultEvents: what the loop body does with a response
\* ------------------------------------------------------------------------

\* Variant: every status "0" body that is not a rate limit is thrown.
ResponseOutcome_StatusZeroThrows(resp) ==
  IF ~resp.ok THEN "throw"
  ELSE IF resp.status = "0"
       THEN IF resp.result.isString /\ IncludesRateLimit(resp.result.text)
            THEN "retry"
            ELSE "throw"
       ELSE "page"

\* Lines 832-848: "throw", "break", "retry", or "page" (fall through to 850).
ResponseOutcome(resp) ==
  IF ~resp.ok THEN "throw"
  ELSE IF resp.status = "0"
       THEN IF resp.message = NO_RECORDS THEN "break"
            ELSE IF resp.result.isString /\ IncludesRateLimit(resp.result.text)
                 THEN "retry"
                 ELSE "break"
       ELSE "page"

\* Variant: only an empty page ends the loop.
Exhausted_OnlyWhenEmpty(logs) == Len(logs) = 0

\* Line 854: fewer than a full page ends the loop.
Exhausted(logs) == Len(logs) < MAX_RESULTS_PER_PAGE

\* Variant: the fetches of all vaults are started together.
StartedAtCall_AllVaults(n) == 1..n

\* Line 786: the loop awaits each vault's fetch, so the call starts only the
\* first vault's fetch ...
StartedAtCall(n) == IF n >= 1 THEN {1} ELSE {}

\* ... and the next vault's fetch starts when the previous one has returned.
StartedAfter(v, n) == IF v < n THEN {v + 1} ELSE {}

RemoveAt(s, k) == SubSeq(s, 1, k - 1) \o SubSeq(s, k + 1, Len(s))

\* The first-page requests of the vaults in S, in vault order.
FirstRequests(S, n) ==
  SelectSeq([w \in 1..n |-> [vault |-> w, page |-> 1]],
            LAMBDA r : r.vault \in S)

\* fetchForPositions is called: lines 765-787 up to the first `await fetch`.
Call ==
  /\ pc = "idle"
  /\ LET vm == GroupByVault(positions, << >>)
         n == Len(vm)
         S == StartedAtCall(n)
     IN  /\ vaultMap' = vm
         /\ fpc' = [w \in 1..n |-> IF w \in S THEN "awaiting" ELSE "idle"]
         /\ page' = [w \in 1..n |-> IF w \in S THEN 1 ELSE 0]
         /\ allLogs' = [w \in 1..n |-> << >>]
         /\ timer' = [w \in 1..n |-> 0]
         /\ inflight' = FirstRequests(S, n)
         /\ nreq' = [w \in 1..n |-> IF w \in S THEN 1 ELSE 0]
         /\ npages' = [w \in 1..n |-> 0]
         /\ last' = [w \in 1..n |-> "none"]
         /\ issuedAfter' = IF S = {} THEN "none" ELSE "call"
         /\ pc' = IF n = 0 THEN "done" ELSE "running"
  /\ UNCHANGED << inputs, allTransactions, result >>

\* Line 833: fetchVaultEvents throws; fetchForPositions rejects with it.
Throw(v, k, kind) ==
  /\ fpc' = [fpc EXCEPT ![v] = "threw"]
  /\ pc' = "threw"
  /\ inflight' = RemoveAt(inflight, k)
  /\ last' = [last EXCEPT ![v] = kind]
  /\ UNCHANGED << inputs, vaultMap, page, allLogs, timer, allTransactions,
                  result, nreq, npages, issuedAfter >>

\* Variant: the retry moves on to the next page.
Retry_SkipsPage(v, k, kind) ==
  /\ fpc' = [fpc EXCEPT ![v] = "delay"]
  /\ timer' = [timer EXCEPT ![v] = RATE_LIMIT_DELAY_MS]
  /\ page' = [page EXCEPT ![v] = @ + 1]
  /\ inflight' = RemoveAt(inflight, k)
  /\ last' = [last EXCEPT ![v] = kind]
  /\ UNCHANGED << inputs, pc, vaultMap, allLogs, allTransactions,
                  result, nreq, npages, issuedAfter >>

\* Lines 844-845: back off, then `continue` with page and allLogs as they are.
Retry(v, k, kind) ==
  /\ fpc' = [fpc EXCEPT ![v] = "delay"]
  /\ timer' = [timer EXCEPT ![v] = RATE_LIMIT_DELAY_MS]
  /\ inflight' = RemoveAt(inflight, k)
  /\ last' = [last EXCEPT ![v] = kind]
  /\ UNCHANGED << inputs, pc, vaultMap, page, allLogs, allTransactions,
                  result, nreq, npages, issuedAfter >>

\* Lines 856-857: a full page was appended; next page after the delay.
NextPage(v, k, kind, logsV) ==
  /\ allLogs' = [allLogs EXCEPT ![v] = logsV]
  /\ page' = [page EXCEPT ![v] = @ + 1]
  /\ fpc' = [fpc EXCEPT ![v] = "delay"]
  /\ timer' = [timer EXCEPT ![v] = REQUEST_DELAY_MS]
  /\ inflight' = RemoveAt(inflight, k)
  /\ last' = [last EXCEPT ![v] = kind]
  /\ npages' = [npages EXCEPT ![v] = @ + 1]
  /\ UNCHANGED << inputs, pc, vaultMap, allTransactions, result, nreq,
                  issuedAfter >>

\* Line 860 and on: fetchVaultEvents returns logsV; fetchForPositions decodes
\* and filters them (789-798), then either starts the next vault's fetch or
\* sorts and returns (802-804).
Finish(v, k, kind, logsV, np) ==
  LET n == Len(vaultMap)
      rows == RowsOfLogs(logsV, 1, Len(logsV), vaultMap[v].info,
                         OwnedIds(vaultMap, v), prices)
      txs == allTransactions \o rows
      S == StartedAfter(v, n)
      sorted == SortTransactions(txs)
  IN  /\ allLogs' = [allLogs EXCEPT ![v] = logsV]
      /\ last' = [last EXCEPT ![v] = kind]
      /\ npages' = [npages EXCEPT ![v] = np]
      /\ IF S = {}
         THEN /\ allTransactions' = sorted
              /\ result' = sorted
              /\ pc' = "done"
              /\ fpc' = [fpc EXCEPT ![v] = "returned"]
              /\ inflight' = RemoveAt(inflight, k)
              /\ UNCHANGED << page, nreq, issuedAfter >>
         ELSE /\ allTransactions' = txs
              /\ fpc' = [w \in 1..n |-> IF w = v THEN "returned"
                                        ELSE IF w \in S THEN "awaiting"
                                        ELSE fpc[w]]
              /\ page' = [w \in 1..n |-> IF w \in S THEN 1 ELSE page[w]]
              /\ inflight' = RemoveAt(inflight, k) \o FirstRequests(S, n)
              /\ nreq' = [w \in 1..n |-> IF w \in S THEN Sat(nreq[w])
                                         ELSE nreq[w]]
              /\ issuedAfter' = "response"
              /\ UNCHANGED << result, pc >>
      /\ UNCHANGED << inputs, vaultMap, timer >>

\* Lines 830-857: the continuation of `await fetch(url)` for request k.
HandleResponse(k, resp, kind) ==
  LET v == inflight[k].vault
      outcome == ResponseOutcome(resp)
      logs == resp.result.list
      logsV == allLogs[v] \o logs
  IN  /\ fpc[v] = "awaiting"
      /\ CASE outcome = "throw" -> Throw(v, k, kind)
           [] outcome = "retry" -> Retry(v, k, kind)
           [] outcome = "break" -> Finish(v, k, kind, allLogs[v], npages[v])
           [] outcome = "page" ->
                IF Exhausted(logs)
                THEN Finish(v, k, kind, logsV, npages[v] + 1)
                ELSE NextPage(v, k, kind, logsV)

\* The logs the source holds for request r.
Served(r) ==
  PageOf(chain[vaultMap[r.vault].vaultAddress], r.page, MAX_RESULTS_PER_PAGE)

\* The API answers with a non-success HTTP status.
RespondNotOk ==
  \E k \in 1..Len(inflight) : HandleResponse(k, NotOkResponse, "notOk")

\* The API has no log on the requested page.
RespondNoRecords ==
  \E k \in 1..Len(inflight) :
    /\ Served(inflight[k]) = << >>
    /\ HandleResponse(k, NoRecordsResponse, "noRecords")

\* The API throttles the request.
RespondRateLimit ==
  \E k \in 1..Len(inflight) : HandleResponse(k, RateLimitResponse, "rateLimit")

\* The API reports another error in the body.
RespondOtherError ==
  \E k \in 1..Len(inflight) : HandleResponse(k, OtherErrorResponse, "otherError")

\* The API serves the requested page.
RespondPage ==
  \E k \in 1..Len(inflight) :
    /\ Served(inflight[k]) # << >>
    /\ HandleResponse(k, PageResponse(Served(inflight[k])), "page")

\* A _delay timer elapses: the loop goes round and sends the request for
\* the current page (lines 816-830).
TimerFires ==
  \E v \in 1..Len(vaultMap) :
    /\ fpc[v] = "delay"
    /\ fpc' = [fpc EXCEPT ![v] = "awaiting"]
    /\ timer' = [timer EXCEPT ![v] = 0]
    /\ inflight' = Append(inflight, [vault |-> v, page |-> page[v]])
    /\ nreq' = [nreq EXCEPT ![v] = Sat(@)]
    /\ issuedAfter' = "delay"
    /\ UNCHANGED << inputs, pc, vaultMap, page, allLogs, allTransactions,
                    result, npages, last >>

Respond ==
  \/ RespondNotOk
  \/ RespondNoRecords
  \/ RespondRateLimit
  \/ RespondOtherError
  \/ RespondPage

Next ==
  \/ Call
  \/ RespondNotOk
  \/ RespondNoRecords
  \/ RespondRateLimit
  \/ RespondOtherError
  \/ RespondPage
  \/ TimerFires

Spec == Init /\ [][Next]_vars

\* Every request is answered and every timer fires; which answer the log
\* source gives is its own choice.
FairSpec ==
  Spec /\ WF_vars(Call) /\ WF_vars(Respond) /\ WF_vars(TimerFires)


\* ------------------------------------------------------------------------
\* decodeEvent called once on one log
\* ------------------------------------------------------------------------

\* Payloads of three to six words over every word value, for both NFTs.
DecodePayloads ==
  { << 10, nft, c, d, 11 >> :
      nft \in {1, 3}, c \in 0..(WordMod - 1), d \in 0..(WordMod - 1) }
    \cup { << 10, 1, c >> : c \in 0..(WordMod - 1) }
    \cup { << 10, 1, c, 1, 11, 0 >> : c \in 0..(WordMod - 1) }
    \cup { << 10, 1, -1, 1, 11 >>, << 10, 1, 1, -1, 11 >> }

DecodeInputs ==
  { [log |-> [data |-> d, timeStamp |-> Ts100,
              transactionHash |-> << "vaultA", 1 >>],
     info |-> GroupByVault(<< Position(1, v) >>, << >>)[1].info,
     prices |-> PriceMap] : d \in DecodePayloads, v \in Vaults }

InitDecode ==
  /\ positions = << Position(1, "vaultA") >>
  /\ prices = PriceMap
  /\ chain = [vaultA |-> << >>, vaultB |-> << >>]
  /\ NotCalled
  /\ fnPc = "ready"
  /\ fnArg \in DecodeInputs
  /\ fnRet = Null

main == << positions, prices, chain, pc, vaultMap, fpc, page, allLogs, timer,
           allTransactions, result, inflight, nreq, npages, last,
           issuedAfter, ui >>

ApplyDecodeEvent ==
  /\ fnPc = "ready"
  /\ fnRet' = decodeEvent(fnArg.log, fnArg.info, fnArg.prices)
  /\ fnPc' = "applied"
  /\ UNCHANGED << main, fnArg >>

NextDecode == ApplyDecodeEvent

SpecDecode == InitDecode /\ [][NextDecode]_vars


\* ------------------------------------------------------------------------
\* Properties
\* ------------------------------------------------------------------------
VaultIds == 1..Len(vaultMap)
Source(v) == chain[vaultMap[v].vaultAddress]
RequestsOf(v) == { k \in 1..Len(inflight) : inflight[k].vault = v }
Prefix(s, n) == SubSeq(s, 1, Min(n, Len(s)))

\* C1: a request for page p is sent only when pages 1..p-1 each brought
\* MAX_RESULTS_PER_PAGE logs; once a page brought fewer, the fetch has ended
\* with no further request and the page counter not advanced; the collected
\* logs are the logs of all pages received, in page order.
C1_Pagination ==
  \A v \in VaultIds :
    /\ \A k \in RequestsOf(v) :
         /\ npages[v] = inflight[k].page - 1
         /\ Len(allLogs[v]) = MAX_RESULTS_PER_PAGE * (inflight[k].page - 1)
    /\ allLogs[v] = Prefix(Source(v), MAX_RESULTS_PER_PAGE * npages[v])
    /\ (npages[v] >= 1 /\ Len(allLogs[v]) < MAX_RESULTS_PER_PAGE * npages[v])
         => /\ fpc[v] = "returned"
            /\ RequestsOf(v) = {}
            /\ page[v] = npages[v]
            /\ last[v] = "page"

\* C1 witness: 1000 logs on page 1 and 400 on page 2, two requests, 1400
\* logs returned.
C1_Witness ==
  \E v \in VaultIds :
    /\ Len(Source(v)) = 1400
    /\ fpc[v] = "returned"
    /\ nreq[v] = 2
    /\ npages[v] = 2
    /\ Len(allLogs[v]) = 1400

\* C2 (as claimed): after an error answer that is neither a rate limit nor
\* "No records found", the fetch has returned the logs of the pages collected.
C2_PartialResultsKept ==
  \A v \in VaultIds :
    last[v] \in { "notOk", "otherError" }
      => /\ fpc[v] = "returned"
         /\ allLogs[v] = Prefix(Source(v), MAX_RESULTS_PER_PAGE * npages[v])

\* C3: a rate-limit answer to the request for page p leaves page and allLogs
\* as they are and starts the fixed backoff; when the backoff ends the request
\* for the same page p is sent, again with page and allLogs unchanged.
C3_RetrySamePage ==
  [][\A v \in VaultIds :
       /\ (fpc[v] = "awaiting" /\ fpc'[v] # "awaiting" /\ last'[v] = "rateLimit")
            => /\ \A k \in RequestsOf(v) : inflight[k].page = page[v]
               /\ fpc'[v] = "delay"
               /\ timer'[v] = RATE_LIMIT_DELAY_MS
               /\ page'[v] = page[v]
               /\ allLogs'[v] = allLogs[v]
               /\ npages'[v] = npages[v]
       /\ (fpc[v] = "delay" /\ timer[v] = RATE_LIMIT_DELAY_MS /\ fpc'[v] # "delay")
            => /\ fpc'[v] = "awaiting"
               /\ page'[v] = page[v]
               /\ allLogs'[v] = allLogs[v]
               /\ inflight' = Append(inflight, [vault |-> v, page |-> page[v]])
    ]_vars

\* C3 witness: page 2 was rate limited and its request is out again, with
\* the first page still collected.
C3_Witness ==
  \E v \in VaultIds :
    /\ last[v] = "rateLimit"
    /\ fpc[v] = "awaiting"
    /\ page[v] = 2
    /\ Len(allLogs[v]) = MAX_RESULTS_PER_PAGE
    /\ \E k \in RequestsOf(v) : inflight[k].page = 2

Terminal == pc \in { "done", "threw" }

\* C4 (as claimed): whatever the log source answers, fetchForPositions
\* eventually returns or throws.
C4_Terminates == <>Terminal

\* C5: after a "No records found" answer the fetch has returned, without
\* throwing and with no request outstanding, the logs of the pages collected
\* before; on page 1 that is the empty sequence.
C5_NoRecordsEndsFetch ==
  \A v \in VaultIds :
    last[v] = "noRecords"
      => /\ fpc[v] = "returned"
         /\ RequestsOf(v) = {}
         /\ Len(allLogs[v]) = MAX_RESULTS_PER_PAGE * (page[v] - 1)
         /\ allLogs[v] = Prefix(Source(v), MAX_RESULTS_PER_PAGE * npages[v])
         /\ npages[v] = page[v] - 1

\* C5 witness: "No records found" on page 1, and on page 3 after two full
\* pages.
C5_Witness ==
  /\ \E v \in VaultIds :
       last[v] = "noRecords" /\ fpc[v] = "returned" /\ page[v] = 1
         /\ allLogs[v] = << >>

C5_WitnessLater ==
  \E v \in VaultIds :
    last[v] = "noRecords" /\ fpc[v] = "returned" /\ page[v] = 3
      /\ Len(allLogs[v]) = 2000

\* C6 (as claimed): no request is sent directly after a response; a delay
\* elapses before every request but the first.
C6_DelayBeforeEveryRequest == issuedAfter # "response"

\* C7: at most one request is outstanding; while a vault's fetch is under
\* way, the fetches of all earlier vaults have ended and no later one has
\* started.
C7_OneRequestAtATime ==
  /\ Len(inflight) <= 1
  /\ \A v \in VaultIds :
       /\ (fpc[v] = "awaiting") <=> (RequestsOf(v) # {})
       /\ fpc[v] \in { "awaiting", "delay" }
            => /\ \A w \in VaultIds : w < v => fpc[w] = "returned"
               /\ \A w \in VaultIds : w > v => fpc[w] = "idle"

\* C7 witness: the second vault's request is out, the first vault's fetch
\* has ended after more than one page.
C7_Witness ==
  /\ Len(vaultMap) = 2
  /\ fpc[1] = "returned"
  /\ npages[1] >= 2
  /\ fpc[2] = "awaiting"
  /\ Len(inflight) = 1

\* The positions' NFT ids on one vault address.
OwnedOn(addr) ==
  { positions[i].nftId :
      i \in { j \in 1..Len(positions) :
                positions[j].vaultData.vaultAddress = addr } }

\* The log a row was decoded from, found by its transaction hash.
LogOfRow(row) == chain[row.txHash[1]][row.txHash[2]]

\* C8: every row of the ledger comes from a log whose NFT id the caller owns
\* on the vault that emitted the log.
C8_OnlyOwnedEvents ==
  /\ \A i \in 1..Len(allTransactions) :
       LogOfRow(allTransactions[i]).data[2] \in OwnedOn(allTransactions[i].txHash[1])
  /\ \A i \in 1..Len(result) :
       LogOfRow(result[i]).data[2] \in OwnedOn(result[i].txHash[1])

\* C8 witness: the ledger is returned with rows in it, and a monitored vault
\* served an event of an NFT the caller owns on the other vault only.
C8_Witness ==
  /\ pc = "done"
  /\ Len(result) >= 1
  /\ \E v \in VaultIds : \E i \in 1..Len(allLogs[v]) :
       LET log == allLogs[v][i]
           addr == vaultMap[v].vaultAddress
       IN  /\ Len(log.data) = DATA_WORDS
           /\ log.data[4] # 0
           /\ log.data[2] \notin OwnedOn(addr)
           /\ \E other \in Vaults \ {addr} : log.data[2] \in OwnedOn(other)

\* Encounter order of two rows: vault order, then log order, then the
\* collateral row before the debt row.
IsCollateralRow(row) ==
  row.description \in { "Collateral Deposit", "Collateral Withdrawal" }

EncounteredBefore(a, b) ==
  LET va == VaultIndex(vaultMap, a.txHash[1])
      vb == VaultIndex(vaultMap, b.txHash[1])
  IN  \/ va < vb
      \/ va = vb /\ a.txHash[2] < b.txHash[2]
      \/ va = vb /\ a.txHash[2] = b.txHash[2]
           /\ IsCollateralRow(a) /\ ~IsCollateralRow(b)

\* Timestamp of a log, read off its hex digits.
RECURSIVE HexValue(_, _)
HexValue(digits, n) ==
  IF n = 0 THEN 0 ELSE 16 * HexValue(digits, n - 1) + digits[n]

TimeOfRow(row) ==
  HexValue(LogOfRow(row).timeStamp, Len(LogOfRow(row).timeStamp))

C9_WitnessTie ==
  /\ pc = "done"
  /\ Len(result) >= 3
  /\ result[1].timestamp = result[2].timestamp
  /\ result[1].txHash = result[2].txHash
  /\ result[2].timestamp = result[3].timestamp
  /\ result[2].txHash[1] # result[3].txHash[1]

\* Value of a word as a signed integer.
Signed(w) == IF w >= WordMod \div 2 THEN w - WordMod ELSE w

Bit(b) == IF b THEN 1 ELSE 0

\* C10: for a payload of five well-formed words, decodeEvent gives one row
\* per non-zero delta, the collateral row first, and null exactly when both
\* deltas are zero.
C10_RowsPerDelta ==
  (fnPc = "applied" /\ Len(fnArg.log.data) = DATA_WORDS
     /\ \A i \in 1..DATA_WORDS : fnArg.log.data[i] >= 0)
    => LET col == Signed(fnArg.log.data[3])
           debt == Signed(fnArg.log.data[4])
           rows == fnRet.rows
       IN  /\ fnRet.isNull <=> (col = 0 /\ debt = 0)
           /\ Len(rows) = Bit(col # 0) + Bit(debt # 0)
           /\ col # 0 => IsCollateralRow(rows[1])
                           /\ rows[1].asset = fnArg.info.supplySymbol
           /\ debt # 0 => ~IsCollateralRow(rows[Len(rows)])
                            /\ rows[Len(rows)].asset = fnArg.info.borrowSymbol
           /\ ~fnRet.isNull => fnRet.nftId = fnArg.log.data[2]

\* C10 witnesses: two rows, one row of each side, and null.
C10_Witness ==
  /\ fnPc = "applied"
  /\ Len(fnArg.log.data) = DATA_WORDS
  /\ Len(fnRet.rows) = 2
  /\ Signed(fnArg.log.data[3]) < 0
  /\ Signed(fnArg.log.data[4]) > 0

C10_WitnessDebtOnly ==
  /\ fnPc = "applied"
  /\ Len(fnArg.log.data) = DATA_WORDS
  /\ Len(fnRet.rows) = 1
  /\ fnArg.log.data[3] = 0

C10_WitnessNull ==
  /\ fnPc = "applied"
  /\ Len(fnArg.log.data) = DATA_WORDS
  /\ fnRet.isNull
  /\ fnArg.log.data[3] = 0
  /\ fnArg.log.data[4] = 0


\* The delta a row was built from: word 2 for a collateral row, word 3 for a
\* debt row.
DeltaOfRow(row, data) ==
  IF IsCollateralRow(row) THEN Signed(data[3]) ELSE Signed(data[4])

\* C11: every row is classified by the sign of its delta: deposit or
\* withdrawal on the collateral side, borrow or repayment on the debt side;
\* the credit flag isRepayOrWithdraw is set exactly when the delta is
\* negative, and the amount is non-zero with the sign of the delta.
C11_RowClassification ==
  (fnPc = "applied" /\ ~fnRet.isNull) =>
    \A i \in 1..Len(fnRet.rows) :
      LET row == fnRet.rows[i]
          delta == DeltaOfRow(row, fnArg.log.data)
      IN  /\ delta # 0
          /\ row.description =
               (IF row.asset = fnArg.info.supplySymbol
                THEN (IF delta > 0 THEN "Collateral Deposit"
                                   ELSE "Collateral Withdrawal")
                ELSE (IF delta > 0 THEN "Margin Loan" ELSE "Loan Repayment"))
          /\ row.isRepayOrWithdraw <=> (delta < 0)
          /\ row.amount.neg <=> (delta < 0)
          /\ row.amount.units = Abs(delta)

\* C11 witness: a withdrawal together with a repayment.
C11_Witness ==
  /\ fnPc = "applied"
  /\ Len(fnRet.rows) = 2
  /\ fnRet.rows[1].description = "Collateral Withdrawal"
  /\ fnRet.rows[1].isRepayOrWithdraw
  /\ fnRet.rows[2].description = "Loan Repayment"
  /\ fnRet.rows[2].isRepayOrWithdraw

\* C12 (as claimed): a payload that is not exactly five words long is
\* skipped: decodeEvent returns null for it.
C12_WrongLengthSkipped ==
  (fnPc = "applied" /\ Len(fnArg.log.data) # DATA_WORDS) => fnRet.isNull


\* ------------------------------------------------------------------------
\* _decodeInt256 applied to one word
\* ------------------------------------------------------------------------

InitInt256 ==
  /\ positions = << Position(1, "vaultA") >>
  /\ prices = PriceMap
  /\ chain = [vaultA |-> << >>, vaultB |-> << >>]
  /\ NotCalled
  /\ fnPc = "ready"
  /\ fnArg \in 0..(WordMod - 1)
  /\ fnRet = 0

ApplyDecodeInt256 ==
  /\ fnPc = "ready"
  /\ fnRet' = decodeInt256(fnArg)
  /\ fnPc' = "applied"
  /\ UNCHANGED << main, fnArg >>

NextInt256 == ApplyDecodeInt256

SpecInt256 == InitInt256 /\ [][NextInt256]_vars

\* C13: the decoded value is the two's-complement reading of the word: w
\* itself up to 2^(WordBits-1) - 1 and w - 2^WordBits above; the all-ones
\* word is -1, the word 1 is 1 and the word with only the top bit set is the
\* most negative value.
C13_TwosComplement ==
  fnPc = "applied" =>
    /\ fnRet \in (-(WordMod \div 2))..(WordMod \div 2 - 1)
    /\ (fnRet - fnArg) % WordMod = 0
    /\ fnArg <= WordMod \div 2 - 1 => fnRet = fnArg
    /\ fnArg > WordMod \div 2 - 1 => fnRet = fnArg - WordMod
    /\ fnArg = WordMod - 1 => fnRet = -1
    /\ fnArg = 1 => fnRet = 1
    /\ fnArg = WordMod \div 2 => fnRet = -(WordMod \div 2)

\* C13 witness: the word with only the top bit set has been decoded.
C13_Witness ==
  /\ fnPc = "applied"
  /\ fnArg = WordMod \div 2
  /\ fnRet < 0


\* ------------------------------------------------------------------------
\* _formatUnits computed digit by digit, and the float it returns
\* ------------------------------------------------------------------------

\* Bits of a float's significand (53 in the double the code runs on).
MantissaBits == 7
\* Largest raw amount and largest decimals handed to _formatUnits.
MaxRaw == 130
MaxDecimals == 2

RECURSIVE Pow10(_)
Pow10(n) == IF n = 0 THEN 1 ELSE 10 * Pow10(n - 1)

\* BigInt.prototype.toString: the decimal digits, most significant first.
RECURSIVE toString(_)
toString(n) ==
  IF n < 10 THEN << n >> ELSE Append(toString(n \div 10), n % 10)

\* Variant: the fractional digits are not padded.
padStart_None(str, targetLength) == str

\* String.prototype.padStart(targetLength, '0')
RECURSIVE padStart(_, _)
padStart(str, targetLength) ==
  IF Len(str) >= targetLength THEN str
  ELSE padStart(<< 0 >> \o str, targetLength)

\* The number a string of decimal digits denotes.
RECURSIVE DigitsValue(_)
DigitsValue(str) ==
  IF str = << >> THEN 0
  ELSE DigitsValue(SubSeq(str, 1, Len(str) - 1)) * 10 + str[Len(str)]

\* A float is m * 2^e with m below 2^MantissaBits; zero is m = 0.
\* Scale num / den by powers of two until the quotient has MantissaBits bits.
RECURSIVE Normalize(_, _, _)
Normalize(num, den, e) ==
  IF num >= den * 2 ^ MantissaBits THEN Normalize(num, den * 2, e + 1)
  ELSE IF num < den * 2 ^ (MantissaBits - 1) THEN Normalize(num * 2, den, e - 1)
  ELSE [num |-> num, den |-> den, e |-> e]

\* Round to nearest, ties to even.
RoundHalfEven(num, den) ==
  LET q == num \div den
      twice == 2 * (num % den)
  IN  IF twice > den \/ (twice = den /\ q % 2 = 1) THEN q + 1 ELSE q

\* The float nearest to num / den.
ToFloat(num, den) ==
  IF num = 0 THEN [m |-> 0, e |-> 0]
  ELSE LET n == Normalize(num, den, 0)
           m == RoundHalfEven(n.num, n.den)
       IN  IF m = 2 ^ MantissaBits
           THEN [m |-> 2 ^ (MantissaBits - 1), e |-> n.e + 1]
           ELSE [m |-> m, e |-> n.e]

\* parseFloat of the string intPart "." fracStr
parseFloat(intPart, fracStr) ==
  ToFloat(intPart * Pow10(Len(fracStr)) + DigitsValue(fracStr),
          Pow10(Len(fracStr)))

\* _formatUnits with its intermediate values.
formatUnitsSteps(value, decimals) ==
  LET divisor == Pow10(decimals)
      intPart == value \div divisor
      fracPart == value % divisor
      fracStr == padStart(toString(fracPart), decimals)
  IN  [intPart |-> intPart, fracStr |-> fracStr,
       float |-> parseFloat(intPart, fracStr)]

FormatInputs == [value : 0..MaxRaw, decimals : 0..MaxDecimals]

InitFormatUnits ==
  /\ positions = << Position(1, "vaultA") >>
  /\ prices = PriceMap
  /\ chain = [vaultA |-> << >>, vaultB |-> << >>]
  /\ NotCalled
  /\ fnPc = "ready"
  /\ fnArg \in FormatInputs
  /\ fnRet = [intPart |-> 0, fracStr |-> << >>, float |-> [m |-> 0, e |-> 0]]

ApplyFormatUnits ==
  /\ fnPc = "ready"
  /\ fnRet' = formatUnitsSteps(fnArg.value, fnArg.decimals)
  /\ fnPc' = "applied"
  /\ UNCHANGED << main, fnArg >>

NextFormatUnits == ApplyFormatUnits

SpecFormatUnits == InitFormatUnits /\ [][NextFormatUnits]_vars

\* Product of two floats, rounded.
FloatMul(a, b) ==
  LET e == a.e + b.e
  IN  IF e >= 0 THEN ToFloat(a.m * b.m * 2 ^ e, 1)
      ELSE ToFloat(a.m * b.m, 2 ^ (-e))

\* Math.round: the nearest integer, halves upwards.
MathRound(f) ==
  IF f.e >= 0 THEN f.m * 2 ^ f.e
  ELSE (2 * f.m + 2 ^ (-f.e)) \div 2 ^ (1 - f.e)

\* round(decimal * 10^d) on floats
Rebuild(f, d) == MathRound(FloatMul(f, ToFloat(Pow10(d), 1)))

\* C14 (as claimed): for every raw amount r and every decimals d, rebuilding
\* base units from the value _formatUnits returns gives r again.
C14_RoundTripEveryAmount ==
  fnPc = "applied" => Rebuild(fnRet.float, fnArg.decimals) = fnArg.value

\* Raw amounts below this bound survive the round trip through the float.
ExactBelow == 2 ^ (MantissaBits - 2)

\* C14 (amended): the decimal string has whole part floor(r / 10^d) and as
\* fractional digits r mod 10^d zero-padded to d digits (the single digit 0
\* when d = 0); the value returned is the float nearest to r / 10^d, and
\* rebuilding base units from it gives r again when r is below
\* 2^(MantissaBits - 2).
C14_DecimalAndRoundTrip ==
  fnPc = "applied" =>
    LET r == fnArg.value
        d == fnArg.decimals
    IN  /\ fnRet.intPart * Pow10(d) <= r
        /\ r < (fnRet.intPart + 1) * Pow10(d)
        /\ Len(fnRet.fracStr) = Max(d, 1)
        /\ DigitsValue(fnRet.fracStr) = r - fnRet.intPart * Pow10(d)
        /\ fnRet.float = ToFloat(r, Pow10(d))
        /\ r < ExactBelow => Rebuild(fnRet.float, d) = r

\* C14 witness: an amount within precision whose fractional digits need
\* padding has been formatted with two decimals and rebuilds exactly.
C14_Witness ==
  /\ fnPc = "applied"
  /\ fnArg.decimals = 2
  /\ fnArg.value = 5
  /\ fnArg.value < ExactBelow
  /\ fnRet.fracStr = << 0, 5 >>
  /\ Rebuild(fnRet.float, 2) = 5

\* ------------------------------------------------------------------------
\* FluidFetcher.rateToApy
\* ------------------------------------------------------------------------

\* Exponents standing for 18 (the threshold 10^18) and 23 (the divisor 10^23).
RateThresholdExp == 3
RateDivisorExp == 4

\* Floats with a sign carry it on m.
FloatAbs(f) == [m |-> Abs(f.m), e |-> f.e]
FloatNeg(f) == [m |-> -f.m, e |-> f.e]

\* Number(bigint): the float nearest to a non-negative integer.
Number(n) == ToFloat(n, 1)

\* Quotient of two floats, rounded; b is positive.
FloatDiv(a, b) ==
  LET e == a.e - b.e
      q == IF e >= 0 THEN ToFloat(Abs(a.m) * 2 ^ e, b.m)
           ELSE ToFloat(Abs(a.m), b.m * 2 ^ (-e))
  IN  IF a.m < 0 THEN FloatNeg(q) ELSE q

\* Variant: a magnitude equal to the threshold is already read as a ray.
rateToApy_ThresholdInclusive(rawRateStr) ==
  LET raw == rawRateStr
      abs == IF raw < 0 THEN -raw ELSE raw
      sign == IF raw < 0 THEN -1 ELSE 1
      scaled == Number(abs \div Pow10(RateDivisorExp))
  IN  IF abs >= Pow10(RateThresholdExp)
      THEN FloatDiv([m |-> sign * scaled.m, e |-> scaled.e], Number(100))
      ELSE FloatDiv([m |-> sign * Number(abs).m, e |-> Number(abs).e],
                    Number(100))

rateToApy(rawRateStr) ==
  LET raw == rawRateStr
      abs == IF raw < 0 THEN -raw ELSE raw
      sign == IF raw < 0 THEN -1 ELSE 1
      scaled == Number(abs \div Pow10(RateDivisorExp))
  IN  IF abs > Pow10(RateThresholdExp)
      THEN FloatDiv([m |-> sign * scaled.m, e |-> scaled.e], Number(100))
      ELSE FloatDiv([m |-> sign * Number(abs).m, e |-> Number(abs).e],
                    Number(100))

\* Largest magnitude of a raw rate: three units of the ray branch.
MaxRate == 3 * Pow10(RateDivisorExp)

InitRate ==
  /\ positions = << Position(1, "vaultA") >>
  /\ prices = PriceMap
  /\ chain = [vaultA |-> << >>, vaultB |-> << >>]
  /\ NotCalled
  /\ fnPc = "ready"
  /\ fnArg \in (-MaxRate)..MaxRate
  /\ fnRet = [m |-> 0, e |-> 0]

ApplyRateToApy ==
  /\ fnPc = "ready"
  /\ fnRet' = rateToApy(fnArg)
  /\ fnPc' = "applied"
  /\ UNCHANGED << main, fnArg >>

NextRate == ApplyRateToApy

SpecRate == InitRate /\ [][NextRate]_vars

\* The integer whose hundredth f(m) is: floor(m / divisor) above the
\* threshold, m itself up to it.
RateUnits(m) ==
  IF m > Pow10(RateThresholdExp)
  THEN CHOOSE q \in 0..(MaxRate \div Pow10(RateDivisorExp)) :
         q * Pow10(RateDivisorExp) <= m /\ m < (q + 1) * Pow10(RateDivisorExp)
  ELSE m

\* C15: rateToApy(x) is sign(x) * f(|x|) with f(m) the hundredth of
\* floor(m / divisor) above the threshold and of m up to it, in the floats of
\* the code (the float of the integer divided by 100; the nearest float to
\* the hundredth when the integer fits the significand); and rateToApy(-x)
\* is the negation of rateToApy(x).
C15_RateToApy ==
  fnPc = "applied" =>
    LET m == Abs(fnArg)
        u == RateUnits(m)
        f == FloatDiv(Number(u), Number(100))
    IN  /\ fnRet = (IF fnArg < 0 THEN FloatNeg(f) ELSE f)
        /\ u < 2 ^ MantissaBits => FloatAbs(fnRet) = ToFloat(u, 100)
        /\ (fnRet.m < 0) <=> (fnArg < 0 /\ u > 0)
        /\ rateToApy(-fnArg) = FloatNeg(fnRet)

\* C15 witness: a negative rate in the ray branch, with a whole part.
C15_Witness ==
  /\ fnPc = "applied"
  /\ fnArg < -2 * Pow10(RateDivisorExp)
  /\ fnRet.m < 0

\* C15 witness: a magnitude equal to the threshold, read in hundredths.
C15_WitnessThreshold ==
  /\ fnPc = "applied"
  /\ fnArg = Pow10(RateThresholdExp)
  /\ fnRet = Number(Pow10(RateThresholdExp - 2))


\* ------------------------------------------------------------------------
\* FluidFetcher.formatPosition
\* ------------------------------------------------------------------------

\* Exponent standing for 27, the scale 10^27 of the oracle price.
PriceScaleExp == 2
\* Largest raw supply and raw borrow of a position.
MaxSupply == 12
MaxBorrow == 12

\* parseFloat(ethers.formatUnits(value, decimals)): the float nearest to the
\* decimal value / 10^decimals.
parseFormatUnits(value, decimals) == ToFloat(value, Pow10(decimals))

\* Number(configs.liquidationThreshold) / 100 in parseVaultData
parseVaultData(configs) ==
  [liquidationThreshold |->
     FloatDiv(Number(configs.liquidationThreshold), Number(100)),
   oraclePriceOperate |-> configs.oraclePriceOperate,
   borrowRateRaw |-> configs.borrowRateRaw,
   supplyRateRaw |-> configs.supplyRateRaw]

\* Number.prototype.toFixed(2) as a count of hundredths: the integer nearest
\* to 100 times the float, the larger one on a tie.
toFixed2(f) ==
  LET a == Abs(f.m) * 100
      n == IF f.e >= 0 THEN a * 2 ^ f.e
           ELSE (2 * a + 2 ^ (-f.e)) \div 2 ^ (1 - f.e)
  IN  IF f.m < 0 THEN -n ELSE n

Finite(f) == [infinite |-> FALSE, value |-> f]
Infinity == [infinite |-> TRUE, value |-> [m |-> 0, e |-> 0]]

\* Variant: the collateral value is rounded up instead of down.
colValueInDebtRaw_Ceiling(supplyRaw, oraclePriceBN) ==
  (supplyRaw * oraclePriceBN + Pow10(PriceScaleExp) - 1)
    \div Pow10(PriceScaleExp)

\* supplyRaw * oraclePriceBN / (10n ** 27n)
colValueInDebtRaw(supplyRaw, oraclePriceBN) ==
  (supplyRaw * oraclePriceBN) \div Pow10(PriceScaleExp)

\* Variant: the health factor is the inverse ratio.
healthFactor_Inverted(liquidationThreshold, ltv) ==
  IF ltv.m > 0 THEN Finite(FloatDiv(ltv, liquidationThreshold)) ELSE Infinity

healthFactor(liquidationThreshold, ltv) ==
  IF ltv.m > 0 THEN Finite(FloatDiv(liquidationThreshold, ltv)) ELSE Infinity

\* formatPosition(position) once both token metadata lookups have resolved;
\* the record carries the locals next to the formatted fields.
formatPosition(position, supplyToken, borrowToken) ==
  LET supplyAmount == parseFormatUnits(position.supply, supplyToken.decimals)
      borrowAmount == parseFormatUnits(position.borrow, borrowToken.decimals)
      supplyRaw == position.supply
      oraclePriceBN == position.vaultData.oraclePriceOperate
      colRaw == colValueInDebtRaw(supplyRaw, oraclePriceBN)
      colValueInDebt == parseFormatUnits(colRaw, borrowToken.decimals)
      ltv == IF borrowAmount.m > 0 /\ colValueInDebt.m > 0
             THEN FloatMul(FloatDiv(borrowAmount, colValueInDebt), Number(100))
             ELSE [m |-> 0, e |-> 0]
      hf == healthFactor(position.vaultData.liquidationThreshold, ltv)
      oraclePriceHuman == IF supplyAmount.m > 0 /\ colValueInDebt.m > 0
                          THEN FloatDiv(colValueInDebt, supplyAmount)
                          ELSE [m |-> 0, e |-> 0]
      borrowRateApy == rateToApy(position.vaultData.borrowRateRaw)
      supplyRateApy == rateToApy(position.vaultData.supplyRateRaw)
  IN  [colValueInDebtRaw |-> colRaw,
       colValueInDebt |-> colValueInDebt,
       ltv |-> ltv,
       healthFactor |-> hf,
       formatted |->
         [collateral |-> [amount |-> supplyAmount,
                          symbol |-> supplyToken.symbol],
          debt |-> [amount |-> borrowAmount, symbol |-> borrowToken.symbol],
          ltv |-> toFixed2(ltv),
          liquidationThreshold |->
            toFixed2(position.vaultData.liquidationThreshold),
          borrowRateApy |-> toFixed2(borrowRateApy),
          supplyRateApy |-> toFixed2(supplyRateApy),
          healthFactor |-> IF hf = Infinity
                           THEN [infinite |-> TRUE, hundredths |-> 0]
                           ELSE [infinite |-> FALSE,
                                 hundredths |-> toFixed2(hf.value)],
          oraclePrice |-> oraclePriceHuman]]

\* Oracle prices: none, half, one, one and a half, two and a half of the
\* scale; thresholds of 80% and 96% in basis points.
OraclePrices ==
  { 0, Pow10(PriceScaleExp) \div 2, Pow10(PriceScaleExp),
    (3 * Pow10(PriceScaleExp)) \div 2, (5 * Pow10(PriceScaleExp)) \div 2 }

FormatPositionInputs ==
  { [position |->
       [supply |-> s, borrow |-> b,
        vaultData |-> parseVaultData(
          [liquidationThreshold |-> lt, oraclePriceOperate |-> p,
           borrowRateRaw |-> 523, supplyRateRaw |-> 0])],
     supplyToken |-> [symbol |-> "WETH", decimals |-> sd],
     borrowToken |-> [symbol |-> "USDC", decimals |-> bd]] :
      s \in 0..MaxSupply, b \in 0..MaxBorrow, p \in OraclePrices,
      lt \in {8000, 9600}, sd \in 0..MaxDecimals, bd \in 0..MaxDecimals }

InitFormatPosition ==
  /\ positions = << Position(1, "vaultA") >>
  /\ prices = PriceMap
  /\ chain = [vaultA |-> << >>, vaultB |-> << >>]
  /\ NotCalled
  /\ fnPc = "ready"
  /\ fnArg \in FormatPositionInputs
  /\ fnRet = Null

ApplyFormatPosition ==
  /\ fnPc = "ready"
  /\ fnRet' = formatPosition(fnArg.position, fnArg.supplyToken,
                             fnArg.borrowToken)
  /\ fnPc' = "applied"
  /\ UNCHANGED << main, fnArg >>

NextFormatPosition == ApplyFormatPosition

SpecFormatPosition == InitFormatPosition /\ [][NextFormatPosition]_vars

\* |m * 2^e * q - n| * 2^(MantissaBits - 3) <= n: the float is n / q up to
\* the rounding of four float operations.
NearQuotient(f, n, q) ==
  IF f.e >= 0
  THEN Abs(f.m * 2 ^ f.e * q - n) * 2 ^ (MantissaBits - 3) <= n
  ELSE Abs(f.m * q - n * 2 ^ (-f.e)) * 2 ^ (MantissaBits - 3)
         <= n * 2 ^ (-f.e)

\* C16: colValueInDebt is the floor of supplyRaw * oraclePriceOperate over
\* the price scale, in integers; ltv is 0 whenever the debt amount or
\* colValueInDebt is 0, and otherwise the float computation of
\* (debtAmount / colValueInDebt) * 100, which is positive and is
\* 100 * borrowRaw / colValueInDebtRaw up to float rounding.
C16_CollateralValueAndLtv ==
  fnPc = "applied" =>
    LET pos == fnArg.position
        product == pos.supply * pos.vaultData.oraclePriceOperate
        q == fnRet.colValueInDebtRaw
        debtAmount == fnRet.formatted.debt.amount
    IN  /\ q * Pow10(PriceScaleExp) <= product
        /\ product < (q + 1) * Pow10(PriceScaleExp)
        /\ fnRet.colValueInDebt = ToFloat(q, Pow10(fnArg.borrowToken.decimals))
        /\ (pos.borrow = 0 \/ q = 0) => fnRet.ltv.m = 0
        /\ (debtAmount.m = 0 \/ fnRet.colValueInDebt.m = 0) => fnRet.ltv.m = 0
        /\ (pos.borrow > 0 /\ q > 0) =>
             /\ fnRet.ltv =
                  FloatMul(FloatDiv(debtAmount, fnRet.colValueInDebt),
                           Number(100))
             /\ fnRet.ltv.m > 0
             /\ NearQuotient(fnRet.ltv, 100 * pos.borrow, q)

\* C16 witness: a product that is not a multiple of the scale, with debt.
C16_Witness ==
  /\ fnPc = "applied"
  /\ fnArg.position.borrow = 3
  /\ fnArg.position.supply = 5
  /\ fnArg.position.vaultData.oraclePriceOperate
       = (3 * Pow10(PriceScaleExp)) \div 2
  /\ fnRet.colValueInDebtRaw = 7
  /\ fnRet.ltv.m > 0

\* C16 witness: debt against collateral whose value floors to zero.
C16_WitnessZeroValue ==
  /\ fnPc = "applied"
  /\ fnArg.position.borrow > 0
  /\ fnArg.position.supply > 0
  /\ fnArg.position.vaultData.oraclePriceOperate > 0
  /\ fnRet.colValueInDebtRaw = 0
  /\ fnRet.ltv.m = 0

\* C17: the health factor is infinite exactly when ltv is 0, and otherwise
\* the float quotient liquidationThreshold / ltv; a threshold of 80 over an
\* ltv of 40 gives 2; the formatted field shows the infinity sign in the
\* same cases.
C17_HealthFactor ==
  fnPc = "applied" =>
    LET lt == fnArg.position.vaultData.liquidationThreshold
        hf == fnRet.healthFactor
    IN  /\ hf.infinite <=> (fnRet.ltv.m = 0)
        /\ ~hf.infinite => hf.value = FloatDiv(lt, fnRet.ltv)
        /\ (lt = Number(80) /\ fnRet.ltv = Number(40)) => hf.value = Number(2)
        /\ fnRet.formatted.healthFactor.infinite <=> (fnRet.ltv.m = 0)

\* C17 witness: threshold 80 and ltv 40.
C17_Witness ==
  /\ fnPc = "applied"
  /\ fnArg.position.vaultData.liquidationThreshold = Number(80)
  /\ fnRet.ltv = Number(40)
  /\ fnRet.healthFactor = Finite(Number(2))
  /\ fnRet.formatted.healthFactor.hundredths = 200

\* C17 witness: no debt, infinite health factor.
C17_WitnessInfinite ==
  /\ fnPc = "applied"
  /\ fnArg.position.borrow = 0
  /\ fnArg.position.supply > 0
  /\ fnRet.healthFactor = Infinity


\* ------------------------------------------------------------------------
\* FluidFetcher.getAllPositions and the lookup by NFT id
\* ------------------------------------------------------------------------

\* Most positions the resolver holds in one run.
MaxPositions == 2

\* What the resolver holds for one position: the position struct and the
\* vault struct next to it. The position at index i has NFT id i.
RawConfigs ==
  [liquidationThreshold |-> 8000, oraclePriceOperate |-> Pow10(PriceScaleExp),
   borrowRateRaw |-> 523, supplyRateRaw |-> 0]

RawEntries ==
  { [position |-> [isLiquidated |-> l, isSupplyPosition |-> so, supply |-> s,
                   borrow |-> 3],
     vaultData |-> [isSmartCol |-> sc, isSmartDebt |-> sd,
                    configs |-> RawConfigs]] :
      l \in BOOLEAN, so \in BOOLEAN, s \in {0, 5},
      sc \in BOOLEAN, sd \in BOOLEAN }

Numbered(entries) ==
  [i \in 1..Len(entries) |->
     [position |-> [nftId |-> i] @@ entries[i].position,
      vaultData |-> entries[i].vaultData]]

ResolverStates ==
  { Numbered(es) : es \in UNION { [1..n -> RawEntries] : n \in 0..MaxPositions } }

\* buildPositionObject(position, vaultData)
buildPositionObject(position, vaultData) ==
  [nftId |-> position.nftId,
   isLiquidated |-> position.isLiquidated,
   isSupplyPosition |-> position.isSupplyPosition,
   supply |-> position.supply,
   borrow |-> position.borrow,
   isSmartCol |-> vaultData.isSmartCol,
   isSmartDebt |-> vaultData.isSmartDebt,
   vaultData |-> parseVaultData(vaultData.configs)]

\* { ...position, formatted } with the metadata of the vault's two tokens.
FormattedPosition(posObj) ==
  [nftId |-> posObj.nftId,
   isLiquidated |-> posObj.isLiquidated,
   isSupplyPosition |-> posObj.isSupplyPosition,
   supply |-> posObj.supply,
   borrow |-> posObj.borrow,
   isSmartCol |-> posObj.isSmartCol,
   isSmartDebt |-> posObj.isSmartDebt,
   formatted |-> formatPosition(posObj, [symbol |-> "WETH", decimals |-> 2],
                                [symbol |-> "USDC", decimals |-> 2]).formatted]

\* Variant: supply-only positions are not skipped.
RECURSIVE getAllPositions_KeepsSupplyOnly(_)
getAllPositions_KeepsSupplyOnly(entries) ==
  IF entries = << >> THEN << >>
  ELSE LET position == Head(entries).position
           vaultData == Head(entries).vaultData
           rest == getAllPositions_KeepsSupplyOnly(Tail(entries))
       IN  IF position.isLiquidated THEN rest
           ELSE IF position.supply = 0 THEN rest
           ELSE IF vaultData.isSmartCol \/ vaultData.isSmartDebt THEN rest
           ELSE << FormattedPosition(buildPositionObject(position, vaultData)) >>
                  \o rest

\* The loop of getAllPositions over userPositions[i], vaultsData[i].
RECURSIVE getAllPositions(_)
getAllPositions(entries) ==
  IF entries = << >> THEN << >>
  ELSE LET position == Head(entries).position
           vaultData == Head(entries).vaultData
           rest == getAllPositions(Tail(entries))
       IN  IF position.isLiquidated THEN rest
           ELSE IF position.supply = 0 THEN rest
           ELSE IF vaultData.isSmartCol \/ vaultData.isSmartDebt THEN rest
           ELSE IF position.isSupplyPosition THEN rest
           ELSE << FormattedPosition(buildPositionObject(position, vaultData)) >>
                  \o rest

NoPosition == [isNull |-> TRUE]

\* getPositionByNftId(nftId): the resolver answers an unknown id with a
\* position whose nftId is 0; that, and a failed call, give null.
getPositionByNftId(entries, nftId, rpcOk) ==
  IF ~rpcOk THEN NoPosition
  ELSE IF nftId \notin 1..Len(entries) THEN NoPosition
  ELSE [isNull |-> FALSE] @@
       buildPositionObject(entries[nftId].position, entries[nftId].vaultData)

PositionInputs ==
  [entries : ResolverStates, nftId : 1..(MaxPositions + 1), rpcOk : BOOLEAN]

InitPositions ==
  /\ positions = << Position(1, "vaultA") >>
  /\ prices = PriceMap
  /\ chain = [vaultA |-> << >>, vaultB |-> << >>]
  /\ NotCalled
  /\ fnPc = "ready"
  /\ fnArg \in PositionInputs
  /\ fnRet = [op |-> "none", threw |-> FALSE, positions |-> << >>]

\* getAllPositions(ownerAddress): a failed resolver call is rethrown.
CallGetAllPositions ==
  /\ fnPc = "ready"
  /\ fnRet' = IF fnArg.rpcOk
              THEN [op |-> "getAllPositions", threw |-> FALSE,
                    positions |-> getAllPositions(fnArg.entries)]
              ELSE [op |-> "getAllPositions", threw |-> TRUE,
                    positions |-> << >>]
  /\ fnPc' = "applied"
  /\ UNCHANGED << main, fnArg >>

\* handleGenerate with an NFT id: getPositionByNftId, then formatPosition.
CallGetPositionByNftId ==
  /\ fnPc = "ready"
  /\ LET position == getPositionByNftId(fnArg.entries, fnArg.nftId,
                                        fnArg.rpcOk)
     IN  fnRet' = IF position.isNull
                  THEN [op |-> "getPositionByNftId", threw |-> TRUE,
                        positions |-> << >>]
                  ELSE [op |-> "getPositionByNftId", threw |-> FALSE,
                        positions |-> << FormattedPosition(position) >>]
  /\ fnPc' = "applied"
  /\ UNCHANGED << main, fnArg >>

NextPositions == CallGetAllPositions \/ CallGetPositionByNftId

SpecPositions == InitPositions /\ [][NextPositions]_vars

\* A position the statement covers: not liquidated, with supply, on a plain
\* vault, with a debt side.
Eligible(e) ==
  /\ ~e.position.isLiquidated
  /\ e.position.supply # 0
  /\ ~e.vaultData.isSmartCol
  /\ ~e.vaultData.isSmartDebt
  /\ ~e.position.isSupplyPosition

IdsOf(ps) == { ps[i].nftId : i \in 1..Len(ps) }

\* C18: getAllPositions returns, in the resolver's order and once each,
\* exactly the positions that are not liquidated, have supply, are neither
\* smart-collateral nor smart-debt and are not supply-only; the lookup by id
\* returns the normalized position of an existing id whatever its flags.
C18_PositionFilter ==
  /\ (fnPc = "applied" /\ fnRet.op = "getAllPositions" /\ ~fnRet.threw) =>
       /\ IdsOf(fnRet.positions) =
            { i \in 1..Len(fnArg.entries) : Eligible(fnArg.entries[i]) }
       /\ \A i, j \in 1..Len(fnRet.positions) :
            i < j => fnRet.positions[i].nftId < fnRet.positions[j].nftId
  /\ (fnPc = "applied" /\ fnRet.op = "getPositionByNftId" /\ fnArg.rpcOk
        /\ fnArg.nftId \in 1..Len(fnArg.entries)) =>
       /\ ~fnRet.threw
       /\ Len(fnRet.positions) = 1
       /\ fnRet.positions[1].nftId = fnArg.nftId
       /\ fnRet.positions[1].isLiquidated
            = fnArg.entries[fnArg.nftId].position.isLiquidated

\* C18 witness: getAllPositions has dropped one position and kept another.
C18_Witness ==
  /\ fnPc = "applied"
  /\ fnRet.op = "getAllPositions"
  /\ Len(fnArg.entries) = 2
  /\ fnArg.entries[1].position.isSupplyPosition
  /\ IdsOf(fnRet.positions) = {2}

\* C18 witness: the lookup by id has normalized a liquidated position on a
\* smart-collateral vault.
C18_WitnessById ==
  /\ fnPc = "applied"
  /\ fnRet.op = "getPositionByNftId"
  /\ Len(fnRet.positions) = 1
  /\ fnRet.positions[1].isLiquidated
  /\ fnRet.positions[1].isSmartCol


\* ------------------------------------------------------------------------
\* FluidFetcher.getTokenMetadata
\* ------------------------------------------------------------------------

\* The static table of contracts.js, keyed by the address strings as written.
TOKENS ==
  ("0xC02aaA39b223FE8D0A0e5C4F27eAD9083C756Cc2" :> [symbol |-> "WETH", decimals |-> 18, name |-> "Wrapped Ether"])
  @@ ("0xA0b86991c6218b36c1d19D4a2e9Eb0cE3606eB48" :> [symbol |-> "USDC", decimals |-> 6, name |-> "USD Coin"])
  @@ ("0xdAC17F958D2ee523a2206206994597C13D831ec7" :> [symbol |-> "USDT", decimals |-> 6, name |-> "Tether USD"])
  @@ ("0x6B175474E89094C44Da98b954EedeAC495271d0F" :> [symbol |-> "DAI", decimals |-> 18, name |-> "Dai Stablecoin"])
  @@ ("0x7f39C581F595B53c5cb19bD0b3f8dA6c935E2Ca0" :> [symbol |-> "wstETH", decimals |-> 18, name |-> "Wrapped stETH"])
  @@ ("0xae78736Cd615f374D3085123A210448E74Fc6393" :> [symbol |-> "rETH", decimals |-> 18, name |-> "Rocket Pool ETH"])
  @@ ("0x2260FAC5E5542a773Aa44fBCfeDf7C193bc2C599" :> [symbol |-> "WBTC", decimals |-> 8, name |-> "Wrapped BTC"])
  @@ ("0xEeeeeEeeeEeEeeEeEeEeeEEEeeeeEeeeeeeeEEeE" :> [symbol |-> "ETH", decimals |-> 18, name |-> "Ether"])
  @@ ("0xCd5fE23C85820F7B72D0926FC9b05b43E359b7ee" :> [symbol |-> "weETH", decimals |-> 18, name |-> "Wrapped eETH"])
  @@ ("0xBe9895146f7AF43049ca1c1AE358B0541Ea49704" :> [symbol |-> "cbETH", decimals |-> 18, name |-> "Coinbase Wrapped Staked ETH"])
  @@ ("0xf939E0A03FB07F59A73314E73794Be0E57ac1b4E" :> [symbol |-> "crvUSD", decimals |-> 18, name |-> "Curve USD"])
  @@ ("0x83F20F44975D03b1b09e64809B757c47f942BEeA" :> [symbol |-> "sDAI", decimals |-> 18, name |-> "Savings DAI"])
  @@ ("0x7A56E1C57C7475CCf742b1B0A76528344a234aC8" :> [symbol |-> "sUSDe", decimals |-> 18, name |-> "Staked USDe"])
  @@ ("0x4c9EDD5852cd905f086C759E8383e09bff1E68B3" :> [symbol |-> "USDe", decimals |-> 18, name |-> "Ethena USDe"])

\* The EIP-55 spelling of each address the model knows, by its lower-case
\* spelling: the fourteen addresses of the table and one address outside it.
Checksummed ==
  ("0xc02aaa39b223fe8d0a0e5c4f27ead9083c756cc2" :> "0xC02aaA39b223FE8D0A0e5C4F27eAD9083C756Cc2")
  @@ ("0xa0b86991c6218b36c1d19d4a2e9eb0ce3606eb48" :> "0xA0b86991c6218b36c1d19D4a2e9Eb0cE3606eB48")
  @@ ("0xdac17f958d2ee523a2206206994597c13d831ec7" :> "0xdAC17F958D2ee523a2206206994597C13D831ec7")
  @@ ("0x6b175474e89094c44da98b954eedeac495271d0f" :> "0x6B175474E89094C44Da98b954EedeAC495271d0F")
  @@ ("0x7f39c581f595b53c5cb19bd0b3f8da6c935e2ca0" :> "0x7f39C581F595B53c5cb19bD0b3f8dA6c935E2Ca0")
  @@ ("0xae78736cd615f374d3085123a210448e74fc6393" :> "0xae78736Cd615f374D3085123A210448E74Fc6393")
  @@ ("0x2260fac5e5542a773aa44fbcfedf7c193bc2c599" :> "0x2260FAC5E5542a773Aa44fBCfeDf7C193bc2C599")
  @@ ("0xeeeeeeeeeeeeeeeeeeeeeeeeeeeeeeeeeeeeeeee" :> "0xEeeeeEeeeEeEeeEeEeEeeEEEeeeeEeeeeeeeEEeE")
  @@ ("0xcd5fe23c85820f7b72d0926fc9b05b43e359b7ee" :> "0xCd5fE23C85820F7B72D0926FC9b05b43E359b7ee")
  @@ ("0xbe9895146f7af43049ca1c1ae358b0541ea49704" :> "0xBe9895146f7AF43049ca1c1AE358B0541Ea49704")
  @@ ("0xf939e0a03fb07f59a73314e73794be0e57ac1b4e" :> "0xf939E0A03FB07F59A73314E73794Be0E57ac1b4E")
  @@ ("0x83f20f44975d03b1b09e64809b757c47f942beea" :> "0x83F20F44975D03b1b09e64809B757c47f942BEeA")
  @@ ("0x7a56e1c57c7475ccf742b1b0a76528344a234ac8" :> "0x7A56e1C57c7475ccF742b1B0A76528344a234ac8")
  @@ ("0x4c9edd5852cd905f086c759e8383e09bff1e68b3" :> "0x4c9EDD5852cd905f086C759E8383e09bff1E68B3")
  @@ ("0x9d39a5de30e57443bff2a8307a4256c8797a3497" :> "0x9D39A5DE30e57443BfF2A8307A4256c8797A3497")

\* The lower-case spelling of an address string; the one key of the table
\* that is not spelled as its EIP-55 form is listed by hand.
ToLowerCase(address) ==
  IF address \in DOMAIN Checksummed THEN address
  ELSE IF \E l \in DOMAIN Checksummed : Checksummed[l] = address
  THEN CHOOSE l \in DOMAIN Checksummed : Checksummed[l] = address
  ELSE IF address = "0x7A56E1C57C7475CCf742b1B0A76528344a234aC8"
  THEN "0x7a56e1c57c7475ccf742b1b0a76528344a234ac8"
  ELSE address

\* ethers.getAddress(address): the EIP-55 spelling of a lower-case or
\* correctly spelled address; any other string throws.
getAddress(address) ==
  LET lower == ToLowerCase(address)
  IN  IF lower \in DOMAIN Checksummed
         /\ (address = lower \/ address = Checksummed[lower])
      THEN [threw |-> FALSE, value |-> Checksummed[lower]]
      ELSE [threw |-> TRUE, value |-> address]

UNKNOWN_TOKEN ==
  [symbol |-> "UNKNOWN", decimals |-> DEFAULT_DECIMALS, name |-> "Unknown Token"]

ERC20_CALLS == {"symbol", "decimals", "name"}

\* getTokenMetadata(tokenAddress) against a token contract that answers the
\* three calls with onChain.answer unless one of them rejects; calls is the
\* set of on-chain calls issued.
getTokenMetadata(tokenAddress, onChain) ==
  LET normalizedAddress == getAddress(tokenAddress)
  IN  IF normalizedAddress.threw
      THEN [metadata |-> UNKNOWN_TOKEN, calls |-> {}]
      ELSE IF normalizedAddress.value \in DOMAIN TOKENS
      THEN [metadata |-> TOKENS[normalizedAddress.value], calls |-> {}]
      ELSE IF onChain.rejected = {}
      THEN [metadata |-> onChain.answer, calls |-> ERC20_CALLS]
      ELSE [metadata |-> UNKNOWN_TOKEN, calls |-> ERC20_CALLS]

\* Every spelling of every address, and a string that is no address.
TokenAddresses ==
  DOMAIN Checksummed
    \cup { Checksummed[l] : l \in DOMAIN Checksummed }
    \cup DOMAIN TOKENS
    \cup { "0x" }

OnChainAnswers ==
  { [answer |-> [symbol |-> "sUSDe", decimals |-> d, name |-> "Staked USDe"],
     rejected |-> r] : d \in {6, 18}, r \in { {}, {"decimals"} } }

InitTokenMetadata ==
  /\ positions = << Position(1, "vaultA") >>
  /\ prices = PriceMap
  /\ chain = [vaultA |-> << >>, vaultB |-> << >>]
  /\ NotCalled
  /\ fnPc = "ready"
  /\ fnArg \in [tokenAddress : TokenAddresses, onChain : OnChainAnswers]
  /\ fnRet = [metadata |-> UNKNOWN_TOKEN, calls |-> {}]

ApplyGetTokenMetadata ==
  /\ fnPc = "ready"
  /\ fnRet' = getTokenMetadata(fnArg.tokenAddress, fnArg.onChain)
  /\ fnPc' = "applied"
  /\ UNCHANGED << main, fnArg >>

NextTokenMetadata == ApplyGetTokenMetadata

SpecTokenMetadata == InitTokenMetadata /\ [][NextTokenMetadata]_vars

\* The keys of the table that spell the same address as the argument.
TableKeysOf(address) ==
  { k \in DOMAIN TOKENS : ToLowerCase(k) = ToLowerCase(address) }

\* C19 (as claimed): for a token address that the table holds, no on-chain
\* call is issued and the table's entry is returned; on-chain calls are
\* issued only for an address the table does not hold.
C19_NoCallForTableAddress ==
  fnPc = "applied" =>
    /\ \A k \in TableKeysOf(fnArg.tokenAddress) :
         fnRet.calls = {} /\ fnRet.metadata = TOKENS[k]
    /\ fnRet.calls # {} => TableKeysOf(fnArg.tokenAddress) = {}


\* ------------------------------------------------------------------------
\* FluidFetcher.fetchPrices
\* ------------------------------------------------------------------------
\* Prices are counted in hundredths of a dollar, so that 1.05 is 105.

stablecoins == {"USDC", "USDT", "DAI", "crvUSD", "USDe"}

COINGECKO_IDS ==
  [ETH |-> "ethereum", WETH |-> "ethereum", wstETH |-> "wrapped-steth",
   weETH |-> "wrapped-eeth", rETH |-> "rocket-pool-eth",
   cbETH |-> "coinbase-wrapped-staked-eth", WBTC |-> "wrapped-bitcoin",
   USDC |-> "usd-coin", USDT |-> "tether", DAI |-> "dai",
   crvUSD |-> "crvusd", sDAI |-> "savings-dai",
   sUSDe |-> "ethena-staked-usde", USDe |-> "ethena-usde"]

\* The prices the catch block assigns.
FallbackPrices ==
  [ETH |-> 250000, WETH |-> 250000, wstETH |-> 290000, weETH |-> 270000,
   rETH |-> 270000, cbETH |-> 260000, WBTC |-> 4500000, sDAI |-> 105,
   sUSDe |-> 110]

\* g with the entries of f written over it.
Assign(f, g) == f @@ g

\* Variant: only the two dollar-named coins are seeded.
StablePrices_DollarCoinsOnly == [s \in {"USDC", "USDT"} |-> 100]

StablePrices == [s \in stablecoins |-> 100]

UniqueIds(symbols) ==
  { COINGECKO_IDS[s] : s \in symbols \cap DOMAIN COINGECKO_IDS }

\* Variant: a non-success status is rethrown to the caller.
fetchPrices_NotOkThrows(symbols, response) ==
  IF UniqueIds(symbols) = {}
  THEN [threw |-> FALSE, requested |-> FALSE, prices |-> StablePrices]
  ELSE IF response.kind = "ok"
  THEN LET mapped ==
             { s \in symbols \cap DOMAIN COINGECKO_IDS :
                 COINGECKO_IDS[s] \in DOMAIN response.data }
       IN  [threw |-> FALSE, requested |-> TRUE,
            prices |-> Assign([s \in mapped |->
                                 response.data[COINGECKO_IDS[s]]],
                              StablePrices)]
  ELSE IF response.kind = "notOk"
  THEN [threw |-> TRUE, requested |-> TRUE, prices |-> StablePrices]
  ELSE [threw |-> FALSE, requested |-> TRUE,
        prices |-> Assign(FallbackPrices, StablePrices)]

\* fetchPrices(symbols) against one answer of the price service: "ok" with
\* the body's prices by id, "notOk" for a non-success status, "error" when
\* fetch itself rejects, "badBody" when the body is not JSON.
fetchPrices(symbols, response) ==
  IF UniqueIds(symbols) = {}
  THEN [threw |-> FALSE, requested |-> FALSE, prices |-> StablePrices]
  ELSE IF response.kind = "ok"
  THEN LET mapped ==
             { s \in symbols \cap DOMAIN COINGECKO_IDS :
                 COINGECKO_IDS[s] \in DOMAIN response.data }
       IN  [threw |-> FALSE, requested |-> TRUE,
            prices |-> Assign([s \in mapped |->
                                 response.data[COINGECKO_IDS[s]]],
                              StablePrices)]
  ELSE [threw |-> FALSE, requested |-> TRUE,
        prices |-> Assign(FallbackPrices, StablePrices)]

\* Symbols a statement may ask for; XYZ has no price id.
PriceSymbols == {"WETH", "WBTC", "wstETH", "sUSDe", "USDC", "XYZ"}

\* What the price service quotes, by id.
Quotes ==
  [i \in UniqueIds(PriceSymbols) |->
     IF i = "ethereum" THEN 312345
     ELSE IF i = "wrapped-bitcoin" THEN 6712300
     ELSE IF i = "wrapped-steth" THEN 371200
     ELSE IF i = "ethena-staked-usde" THEN 117
     ELSE 99]

Restrict(f, S) == [x \in S \cap DOMAIN f |-> f[x]]

\* The answers to a request for ids: every id quoted, only the first asset
\* quoted, nothing quoted, and the three failures.
PriceResponses(ids) ==
  { [kind |-> "ok", data |-> Restrict(Quotes, ids)],
    [kind |-> "ok", data |-> Restrict(Quotes, ids \cap {"ethereum"})],
    [kind |-> "ok", data |-> << >>],
    [kind |-> "notOk", data |-> << >>],
    [kind |-> "error", data |-> << >>],
    [kind |-> "badBody", data |-> << >>] }

PriceInputs ==
  { [symbols |-> syms, response |-> r] :
      syms \in SUBSET PriceSymbols, r \in PriceResponses(UniqueIds(PriceSymbols)) }

InitPrices ==
  /\ positions = << Position(1, "vaultA") >>
  /\ prices = PriceMap
  /\ chain = [vaultA |-> << >>, vaultB |-> << >>]
  /\ NotCalled
  /\ fnPc = "ready"
  /\ fnArg \in PriceInputs
  /\ fnRet = [threw |-> FALSE, requested |-> FALSE, prices |-> << >>]

ApplyFetchPrices ==
  /\ fnPc = "ready"
  /\ fnRet' = fetchPrices(fnArg.symbols, fnArg.response)
  /\ fnPc' = "applied"
  /\ UNCHANGED << main, fnArg >>

NextPrices == ApplyFetchPrices

SpecPrices == InitPrices /\ [][NextPrices]_vars

RequestFailed ==
  /\ fnPc = "applied"
  /\ fnRet.requested
  /\ fnArg.response.kind \in {"notOk", "error"}

\* C20: when the price request fails (non-success status or transport
\* error), fetchPrices still returns: every symbol of the fallback table has
\* its fallback price (WBTC 45000, sDAI 1.05), and no symbol outside the
\* stable and fallback tables is in the map.
C20_FallbackOnFailure ==
  RequestFailed =>
    /\ ~fnRet.threw
    /\ \A s \in DOMAIN FallbackPrices :
         s \in DOMAIN fnRet.prices /\ fnRet.prices[s] = FallbackPrices[s]
    /\ fnRet.prices["WBTC"] = 4500000
    /\ fnRet.prices["sDAI"] = 105
    /\ DOMAIN fnRet.prices \subseteq (stablecoins \cup DOMAIN FallbackPrices)
    /\ "XYZ" \notin DOMAIN fnRet.prices

\* C20 witness: a request for WBTC and an unmapped symbol was answered with
\* a non-success status.
C20_Witness ==
  /\ RequestFailed
  /\ fnArg.response.kind = "notOk"
  /\ fnArg.symbols = {"WBTC", "XYZ"}
  /\ fnRet.prices["WBTC"] = 4500000

\* C20 witness: the request itself was rejected.
C20_WitnessTransport ==
  /\ RequestFailed
  /\ fnArg.response.kind = "error"
  /\ "sUSDe" \in fnArg.symbols
  /\ fnRet.prices["sUSDe"] = 110


\* C21 (as claimed): in every outcome of fetchPrices the map holds each of
\* the five stable symbols at 1.0.
C21_StablesAlwaysOne ==
  fnPc = "applied" =>
    \A s \in {"USDC", "USDT", "DAI", "crvUSD", "USDe"} :
      s \in DOMAIN fnRet.prices /\ fnRet.prices[s] = 100

\* The requested symbols for which a successful answer carries a quote.
Quoted ==
  IF fnRet.requested /\ fnArg.response.kind = "ok"
  THEN { s \in fnArg.symbols \cap DOMAIN COINGECKO_IDS :
           COINGECKO_IDS[s] \in DOMAIN fnArg.response.data }
  ELSE {}

\* C21 (amended): each of the five stable symbols is in the map in every
\* outcome, at 1.0 when no request is made, when the request fails, and
\* when the answer does not quote it; a requested stable symbol that a
\* successful answer quotes carries the quote instead.
C21_StablesDefaultToOne ==
  fnPc = "applied" =>
    \A s \in {"USDC", "USDT", "DAI", "crvUSD", "USDe"} :
      /\ s \in DOMAIN fnRet.prices
      /\ s \notin Quoted => fnRet.prices[s] = 100
      /\ s \in Quoted =>
           fnRet.prices[s] = fnArg.response.data[COINGECKO_IDS[s]]

\* C21 witness: a successful answer has replaced the default of USDC while
\* the other stable symbols keep 1.0.
C21_Witness ==
  /\ fnPc = "applied"
  /\ fnArg.response.kind = "ok"
  /\ "USDC" \in Quoted
  /\ fnRet.prices["USDC"] = 99
  /\ fnRet.prices["DAI"] = 100


\* ------------------------------------------------------------------------
\* Consumers of the price map: updateSummaryCards, calculateTotals and the
\* rows of decodeEvent
\* ------------------------------------------------------------------------
\* Amounts are whole tokens and prices hundredths of a dollar here.

\* prices[symbol] || fallback: an absent or zero price gives the fallback.
PriceOr(pr, symbol, fallback) ==
  IF symbol \in DOMAIN pr /\ pr[symbol] # 0 THEN pr[symbol] ELSE fallback

\* One pass of the forEach of updateSummaryCards and of calculateTotals: the
\* USD values of one position.
PositionUsd(pos, pr) ==
  LET f == pos.formatted
      collateralPrice == PriceOr(pr, f.collateral.symbol, 0)
      debtPrice == PriceOr(pr, f.debt.symbol, 100)
  IN  [collateralUsd |-> f.collateral.amount * collateralPrice,
       debtUsd |-> f.debt.amount * debtPrice]

RECURSIVE SumUsd(_, _, _)
SumUsd(ps, pr, side) ==
  IF ps = << >> THEN 0
  ELSE (IF side = "collateral" THEN PositionUsd(Head(ps), pr).collateralUsd
        ELSE PositionUsd(Head(ps), pr).debtUsd)
       + SumUsd(Tail(ps), pr, side)

\* updateSummaryCards: the two totals it writes to the cards.
updateSummaryCards(ps, pr) ==
  [op |-> "updateSummaryCards",
   totalCollateralUsd |-> SumUsd(ps, pr, "collateral"),
   totalDebtUsd |-> SumUsd(ps, pr, "debt"),
   rows |-> << >>]

\* calculateTotals: the two totals; netValue and the weighted averages are
\* functions of these and of the positions.
calculateTotals(data) ==
  [op |-> "calculateTotals",
   totalCollateralUsd |-> SumUsd(data.positions, data.prices, "collateral"),
   totalDebtUsd |-> SumUsd(data.positions, data.prices, "debt"),
   rows |-> << >>]

TotalsPositions ==
  { [nftId |-> 1, supply |-> c, borrow |-> d,
     vaultData |-> [vaultAddress |-> "vaultA", supplyToken |-> cs,
                    borrowToken |-> ds],
     formatted |-> [collateral |-> [amount |-> c, symbol |-> cs, name |-> cs],
                    debt |-> [amount |-> d, symbol |-> ds, name |-> ds]]] :
      c \in {0, 2}, d \in {0, 3}, cs \in {"WETH", "XYZ"},
      ds \in {"USDC", "GHO"} }

TotalsPriceMaps ==
  { Restrict([WETH |-> 250000, USDC |-> 100], S) : S \in SUBSET {"WETH", "USDC"} }

TotalsInputs ==
  [positions : { << p >> : p \in TotalsPositions }
                 \cup { << p, q >> : p \in TotalsPositions, q \in TotalsPositions },
   prices : TotalsPriceMaps]

\* A deposit of the position's supply and a borrow of its debt, as one log.
TotalsLog(pos) ==
  Log(pos.nftId, pos.supply, pos.borrow, Ts100, << "vaultA", 1 >>)

TotalsInfo(pos) ==
  [nftIds |-> {pos.nftId},
   supplyToken |-> pos.vaultData.supplyToken,
   borrowToken |-> pos.vaultData.borrowToken,
   supplySymbol |-> pos.formatted.collateral.symbol,
   borrowSymbol |-> pos.formatted.debt.symbol,
   supplyName |-> pos.formatted.collateral.name,
   borrowName |-> pos.formatted.debt.name,
   supplyDecimals |-> 0,
   borrowDecimals |-> 0]

InitTotals ==
  /\ positions = << Position(1, "vaultA") >>
  /\ prices = PriceMap
  /\ chain = [vaultA |-> << >>, vaultB |-> << >>]
  /\ NotCalled
  /\ fnPc = "ready"
  /\ fnArg \in TotalsInputs
  /\ fnRet = [op |-> "none", totalCollateralUsd |-> 0, totalDebtUsd |-> 0,
              rows |-> << >>]

ApplyUpdateSummaryCards ==
  /\ fnPc = "ready"
  /\ fnRet' = updateSummaryCards(fnArg.positions, fnArg.prices)
  /\ fnPc' = "applied"
  /\ UNCHANGED << main, fnArg >>

ApplyCalculateTotals ==
  /\ fnPc = "ready"
  /\ fnRet' = calculateTotals(fnArg)
  /\ fnPc' = "applied"
  /\ UNCHANGED << main, fnArg >>

\* decodeEvent on a log of the first position, with the same price map.
ApplyDecodeRows ==
  /\ fnPc = "ready"
  /\ LET pos == fnArg.positions[1]
     IN  fnRet' = [op |-> "decodeEvent", totalCollateralUsd |-> 0,
                   totalDebtUsd |-> 0,
                   rows |-> decodeEvent(TotalsLog(pos), TotalsInfo(pos),
                                        fnArg.prices).rows]
  /\ fnPc' = "applied"
  /\ UNCHANGED << main, fnArg >>

NextTotals ==
  ApplyUpdateSummaryCards \/ ApplyCalculateTotals \/ ApplyDecodeRows

SpecTotals == InitTotals /\ [][NextTotals]_vars

\* C22 (as claimed): a symbol without a price counts as price 0 everywhere:
\* the collateral total, the debt total and every ledger row of positions
\* whose symbol is not in the map are 0.
C22_MissingPriceIsZero ==
  fnPc = "applied" =>
    /\ (\A i \in 1..Len(fnArg.positions) :
          fnArg.positions[i].formatted.collateral.symbol
            \notin DOMAIN fnArg.prices)
         => fnRet.totalCollateralUsd = 0
    /\ (\A i \in 1..Len(fnArg.positions) :
          fnArg.positions[i].formatted.debt.symbol \notin DOMAIN fnArg.prices)
         => fnRet.totalDebtUsd = 0
    /\ \A i \in 1..Len(fnRet.rows) :
         fnRet.rows[i].symbol \notin DOMAIN fnArg.prices
           => fnRet.rows[i].usdValue.units = 0


\* ------------------------------------------------------------------------
\* getAllPositions when normalizing a position throws
\* ------------------------------------------------------------------------

\* The try block of getAllPositions: the loop over the resolver's answer,
\* where buildPositionObject or formatPosition throws for the positions in
\* faulty (a token whose decimals ethers.formatUnits rejects, a malformed
\* vault struct). The throw leaves the loop for the catch, which rethrows.
RECURSIVE getAllPositionsTry(_, _)
getAllPositionsTry(entries, faulty) ==
  IF entries = << >> THEN [threw |-> FALSE, positions |-> << >>]
  ELSE LET position == Head(entries).position
           vaultData == Head(entries).vaultData
           rest == getAllPositionsTry(Tail(entries), faulty)
       IN  IF position.isLiquidated THEN rest
           ELSE IF position.supply = 0 THEN rest
           ELSE IF vaultData.isSmartCol \/ vaultData.isSmartDebt THEN rest
           ELSE IF position.isSupplyPosition THEN rest
           ELSE IF position.nftId \in faulty
           THEN [threw |-> TRUE, positions |-> << >>]
           ELSE IF rest.threw THEN rest
           ELSE [threw |-> FALSE,
                 positions |->
                   << FormattedPosition(buildPositionObject(position,
                                                            vaultData)) >>
                     \o rest.positions]

BatchInputs ==
  [entries : ResolverStates, faulty : SUBSET (1..MaxPositions)]

InitBatch ==
  /\ positions = << Position(1, "vaultA") >>
  /\ prices = PriceMap
  /\ chain = [vaultA |-> << >>, vaultB |-> << >>]
  /\ NotCalled
  /\ fnPc = "ready"
  /\ fnArg \in BatchInputs
  /\ fnRet = [threw |-> FALSE, positions |-> << >>]

ApplyGetAllPositions ==
  /\ fnPc = "ready"
  /\ fnRet' = getAllPositionsTry(fnArg.entries, fnArg.faulty)
  /\ fnPc' = "applied"
  /\ UNCHANGED << main, fnArg >>

NextBatch == ApplyGetAllPositions

SpecBatch == InitBatch /\ [][NextBatch]_vars

\* C23 (as claimed): a position whose normalization fails does not abort the
\* batch: getAllPositions returns, and returns the reportable positions
\* whose normalization succeeds.
C23_FailureIsolated ==
  fnPc = "applied" =>
    /\ ~fnRet.threw
    /\ IdsOf(fnRet.positions) =
         { i \in 1..Len(fnArg.entries) :
             Eligible(fnArg.entries[i]) /\ i \notin fnArg.faulty }

\* ------------------------------------------------------------------------
\* App: handleGenerate, handleDownload and the timer of setLoading
\* ------------------------------------------------------------------------

\* Most submits of the form in one behaviour.
MaxRuns == 2

\* A text input's value as far as the code looks at it: its prefix, the
\* number of characters after it, whether they are all hex digits, and
\* whether ethers.getAddress accepts its letter case.
NoText == [prefix |-> "", digits |-> 0, hex |-> TRUE, checksum |-> TRUE]

\* isValidAddress(address): /^0x[a-fA-F0-9]{40}$/
isValidAddress(address) ==
  address.prefix = "0x" /\ address.digits = 40 /\ address.hex

WalletTexts ==
  { NoText,
    [prefix |-> "0x", digits |-> 39, hex |-> TRUE, checksum |-> TRUE],
    [prefix |-> "0x", digits |-> 40, hex |-> TRUE, checksum |-> FALSE],
    [prefix |-> "0x", digits |-> 40, hex |-> TRUE, checksum |-> TRUE] }

\* The trimmed values of #walletAddress, #nftId and #etherscanApiKey; an
\* NFT id is the one-element sequence of its number, << >> the empty text.
Forms ==
  [walletAddress : WalletTexts,
   nftId : { << >> } \cup { << n >> : n \in 1..MaxPositions },
   etherscanApiKey : {"", "KEY"}]

\* What the resolver holds when the app asks: no position or one.
AppResolverStates == { es \in ResolverStates : Len(es) <= 1 }

MSG_NO_INPUT == "Please enter a wallet address or NFT ID"
MSG_INVALID_ADDRESS == "Invalid Ethereum address format"
MSG_RPC == "Failed to connect to RPC"
MSG_NOT_FOUND == "Position NFT not found"
MSG_FETCH_FAILED == "Failed to fetch positions. Is this address correct?"
MSG_NO_POSITIONS == "No active positions found for this address"
MSG_BAD_CHECKSUM == "bad address checksum"

NoTransactions == [isNull |-> TRUE, rows |-> << >>]

\* What fetchForPositions may return to the app: an empty ledger or rows.
Ledgers == { << >>, << "row" >>, << "row", "row" >> }

\* Variant: the section is added for every ledger, the empty one included.
generate_SectionForEveryLedger(data) ==
  << "Header", "Account Info", "Account Summary" >>
    \o (IF ~data.transactions.isNull
        THEN << "Transaction Activity" >> ELSE << >>)
    \o << "Position Details", "Collateral Schedule", "Disclosures",
          "Footer" >>

\* StatementGenerator.generate(data): the sections of the PDF, in order.
generate(data) ==
  << "Header", "Account Info", "Account Summary" >>
    \o (IF ~data.transactions.isNull /\ Len(data.transactions.rows) > 0
        THEN << "Transaction Activity" >> ELSE << >>)
    \o << "Position Details", "Collateral Schedule", "Disclosures",
          "Footer" >>

\* The validation returns of handleGenerate: showError, nothing else.
Rejects(message) ==
  /\ errorText' = message
  /\ errorArea' = "shown"
  /\ run' = [n |-> run.n + 1, source |-> "none", history |-> "none",
             outcome |-> "rejected"]
  /\ UNCHANGED << gpc, statusArea, downloadArea, currentPdfBlob,
                  appPositions, hideTimers >>

\* A throw inside the try of handleGenerate: the catch shows the message,
\* the finally calls setLoading(false), which starts the 2000 ms timer.
Throws(message, source) ==
  /\ errorText' = message
  /\ errorArea' = "shown"
  /\ hideTimers' = hideTimers + 1
  /\ gpc' = "idle"
  /\ run' = [run EXCEPT !.source = source, !.outcome = "error"]
  /\ UNCHANGED << statusArea, downloadArea, currentPdfBlob >>

\* Lines 198-221 and the finally: the statement data, generate, showPreview,
\* the download area, setLoading(false).
Generates(transactions, history) ==
  /\ currentPdfBlob' =
       [isNull |-> FALSE, generatedAt |-> run.n,
        positions |-> appPositions, transactions |-> transactions,
        sections |-> generate([positions |-> appPositions,
                               transactions |-> transactions])]
  /\ downloadArea' = "shown"
  /\ hideTimers' = hideTimers + 1
  /\ gpc' = "idle"
  /\ run' = [run EXCEPT !.history = history, !.outcome = "ok"]
  /\ UNCHANGED << statusArea, errorArea, errorText, appPositions >>

\* Everything but the page.
rest == << positions, prices, chain, pc, vaultMap, fpc, page, allLogs, timer,
           allTransactions, result, inflight, nreq, npages, last,
           issuedAfter, fnPc, fnArg, fnRet >>

InitApp ==
  /\ positions = << Position(1, "vaultA") >>
  /\ prices = PriceMap
  /\ chain = [vaultA |-> << >>, vaultB |-> << >>]
  /\ NotCalled
  /\ fnPc = "none"
  /\ fnArg = << >>
  /\ fnRet = << >>

\* The form is submitted: handleGenerate up to `await this.fetcher.init()`.
\* The generate button is disabled while a run is in progress.
handleGenerate ==
  /\ gpc = "idle"
  /\ run.n < MaxRuns
  /\ \E f \in Forms :
       /\ form' = f
       /\ IF f.walletAddress = NoText /\ f.nftId = << >>
          THEN Rejects(MSG_NO_INPUT)
          ELSE IF f.walletAddress # NoText /\ ~isValidAddress(f.walletAddress)
          THEN Rejects(MSG_INVALID_ADDRESS)
          ELSE /\ statusArea' = "shown"
               /\ errorArea' = "hidden"
               /\ gpc' = "init"
               /\ run' = [n |-> run.n + 1, source |-> "none",
                          history |-> "none", outcome |-> "running"]
               /\ UNCHANGED << errorText, downloadArea, currentPdfBlob,
                               appPositions, hideTimers >>
  /\ UNCHANGED << rest, delivered >>

\* fetcher.init() settles: getBlockNumber answered or failed.
AfterInit ==
  /\ gpc = "init"
  /\ \E connected \in BOOLEAN :
       IF ~connected
       THEN Throws(MSG_RPC, "none") /\ UNCHANGED appPositions
       ELSE /\ gpc' = IF form.nftId # << >> THEN "getPositionByNftId"
                      ELSE "getAllPositions"
            /\ UNCHANGED << statusArea, errorArea, errorText, downloadArea,
                            currentPdfBlob, appPositions, hideTimers, run >>
  /\ UNCHANGED << rest, form, delivered >>

\* getPositionByNftId settles, then formatPosition.
AfterGetPositionByNftId ==
  /\ gpc = "getPositionByNftId"
  /\ \E entries \in AppResolverStates, rpcOk \in BOOLEAN :
       LET nftId == form.nftId[1]
           position == getPositionByNftId(entries, nftId, rpcOk)
           source == IF ~rpcOk THEN "failed"
                     ELSE IF nftId \notin 1..Len(entries) THEN "nothing"
                     ELSE "found"
       IN  IF position.isNull
           THEN Throws(MSG_NOT_FOUND, source) /\ UNCHANGED appPositions
           ELSE /\ appPositions' = << FormattedPosition(position).nftId >>
                /\ gpc' = "fetchPrices"
                /\ run' = [run EXCEPT !.source = source]
                /\ UNCHANGED << statusArea, errorArea, errorText,
                                downloadArea, currentPdfBlob, hideTimers >>
  /\ UNCHANGED << rest, form, delivered >>

\* getAllPositions settles: ethers.getAddress rejects a bad checksum before
\* the resolver is asked; a failed resolver call is rethrown with the
\* message of line 260.
AfterGetAllPositions ==
  /\ gpc = "getAllPositions"
  /\ \E entries \in AppResolverStates, rpcOk \in BOOLEAN :
       LET found == getAllPositions(entries)
           source == IF ~rpcOk THEN "failed"
                     ELSE IF entries = << >> THEN "nothing"
                     ELSE IF found = << >> THEN "filtered"
                     ELSE "found"
       IN  IF ~form.walletAddress.checksum
           THEN Throws(MSG_BAD_CHECKSUM, "none") /\ UNCHANGED appPositions
           ELSE IF ~rpcOk
           THEN /\ Throws(MSG_FETCH_FAILED, source)
                /\ UNCHANGED appPositions
           ELSE IF Len(found) = 0
           THEN /\ Throws(MSG_NO_POSITIONS, source)
                /\ appPositions' = << >>
           ELSE /\ appPositions' = [i \in 1..Len(found) |-> found[i].nftId]
                /\ gpc' = "fetchPrices"
                /\ run' = [run EXCEPT !.source = source]
                /\ UNCHANGED << statusArea, errorArea, errorText,
                                downloadArea, currentPdfBlob, hideTimers >>
  /\ UNCHANGED << rest, form, delivered >>

\* fetchPrices settles (it never throws): the summary cards, then either the
\* history fetch or, without an API key, the PDF with transactions = null.
AfterFetchPrices ==
  /\ gpc = "fetchPrices"
  /\ IF form.etherscanApiKey # ""
     THEN /\ gpc' = "fetchForPositions"
          /\ UNCHANGED << statusArea, errorArea, errorText, downloadArea,
                          currentPdfBlob, appPositions, hideTimers, run >>
     ELSE Generates(NoTransactions, "noKey")
  /\ UNCHANGED << rest, form, delivered >>

\* fetchForPositions settles: a throw is caught and leaves transactions null.
AfterFetchForPositions ==
  /\ gpc = "fetchForPositions"
  /\ \/ Generates(NoTransactions, "threw")
     \/ \E ledger \in Ledgers :
          Generates([isNull |-> FALSE, rows |-> ledger],
                    IF ledger = << >> THEN "empty" ELSE "rows")
  /\ UNCHANGED << rest, form, delivered >>

\* The callback of setTimeout(..., 2000) in setLoading(false) runs.
HideStatus ==
  /\ hideTimers > 0
  /\ hideTimers' = hideTimers - 1
  /\ statusArea' = "hidden"
  /\ UNCHANGED << rest, gpc, form, errorArea, errorText, downloadArea,
                  currentPdfBlob, appPositions, delivered, run >>

\* A click on the download button, which is inside #downloadArea.
handleDownload ==
  /\ downloadArea = "shown"
  /\ delivered' = IF currentPdfBlob.isNull THEN delivered ELSE currentPdfBlob
  /\ UNCHANGED << rest, gpc, form, statusArea, errorArea, errorText,
                  downloadArea, currentPdfBlob, appPositions, hideTimers,
                  run >>

\* An input event on the wallet or NFT field: hideError.
hideError ==
  /\ errorArea = "shown"
  /\ errorArea' = "hidden"
  /\ UNCHANGED << rest, gpc, form, statusArea, errorText, downloadArea,
                  currentPdfBlob, appPositions, hideTimers, delivered, run >>

NextApp ==
  \/ handleGenerate
  \/ AfterInit
  \/ AfterGetPositionByNftId
  \/ AfterGetAllPositions
  \/ AfterFetchPrices
  \/ AfterFetchForPositions
  \/ HideStatus
  \/ handleDownload
  \/ hideError

SpecApp == InitApp /\ [][NextApp]_vars

\* Messages that say the position does not exist.
NotFoundMessages == { MSG_NOT_FOUND, MSG_NO_POSITIONS }

\* Messages that say the position source could not be reached.
ConnectivityMessages == { MSG_RPC, MSG_FETCH_FAILED }

\* C24 (as claimed): after a run that ended in an error, a failed call to the
\* position source is never reported with a not-found message, and a source
\* that answered with nothing is never reported with a connectivity message,
\* by owner and by NFT id alike.
C24_ErrorDistinguishesSource ==
  (gpc = "idle" /\ run.outcome = "error") =>
    /\ run.source = "failed" => errorText \notin NotFoundMessages
    /\ run.source = "nothing" => errorText \notin ConnectivityMessages

\* C25: a run whose positions were found ends with the PDF of that run, also
\* when no API key was entered or fetchForPositions threw; in both cases the
\* statement data holds transactions = null; and a PDF generated from null
\* or empty transactions has no Transaction Activity section.
C25_HistoryNeverBlocks ==
  /\ (gpc = "idle" /\ run.source = "found") =>
       /\ run.outcome = "ok"
       /\ ~currentPdfBlob.isNull
       /\ currentPdfBlob.generatedAt = run.n
       /\ (form.etherscanApiKey = "" \/ run.history = "threw") =>
            currentPdfBlob.transactions = NoTransactions
  /\ ~currentPdfBlob.isNull =>
       LET transactions == currentPdfBlob.transactions
           sections == currentPdfBlob.sections
       IN  (transactions.isNull \/ transactions.rows = << >>) =>
             \A i \in 1..Len(sections) : sections[i] # "Transaction Activity"

\* fetchForPositions threw, and the PDF of that run is there.
C25_Witness ==
  /\ gpc = "idle"
  /\ run.history = "threw"
  /\ run.outcome = "ok"
  /\ ~currentPdfBlob.isNull
  /\ currentPdfBlob.generatedAt = run.n
  /\ currentPdfBlob.transactions = NoTransactions
  /\ Len(currentPdfBlob.sections) = 7

\* No API key, and the PDF of that run is there.
C25_WitnessNoKey ==
  /\ gpc = "idle"
  /\ form.etherscanApiKey = ""
  /\ run.history = "noKey"
  /\ run.outcome = "ok"
  /\ ~currentPdfBlob.isNull
  /\ currentPdfBlob.generatedAt = run.n

\* An empty ledger came back, and the PDF has no activity section.
C25_WitnessEmpty ==
  /\ run.history = "empty"
  /\ ~currentPdfBlob.isNull
  /\ currentPdfBlob.generatedAt = run.n
  /\ ~currentPdfBlob.transactions.isNull
  /\ Len(currentPdfBlob.sections) = 7


\* ------------------------------------------------------------------------
\* The vault context of fetchForPositions for positions with zero amounts
\* ------------------------------------------------------------------------

\* One or two owned positions, each with or without collateral and debt.
ContextPositions ==
  { << PositionOf(1, v, s, b) >> :
      v \in Vaults, s \in {0, 5}, b \in {0, 3} }
    \cup
  { << PositionOf(1, v, s, b), PositionOf(2, w, t, c) >> :
      v \in Vaults, s \in {0, 5}, b \in {0, 3},
      w \in Vaults, t \in {0, 5}, c \in {0, 3} }

InitContext ==
  /\ positions = << Position(1, "vaultA") >>
  /\ prices = PriceMap
  /\ chain = [vaultA |-> << >>, vaultB |-> << >>]
  /\ NotCalled
  /\ fnPc = "ready"
  /\ fnArg \in ContextPositions
  /\ fnRet = << >>

\* Lines 764-782 of fetchForPositions.
ApplyGroupByVault ==
  /\ fnPc = "ready"
  /\ fnRet' = GroupByVault(fnArg, << >>)
  /\ fnPc' = "applied"
  /\ UNCHANGED << main, fnArg >>

NextContext == ApplyGroupByVault

SpecContext == InitContext /\ [][NextContext]_vars

\* C26 (as claimed): the decimals in every vault's context are the decimals of
\* the vault's supply and borrow tokens, whichever position the context was
\* built from, a position with a zero supply or borrow amount included.
C26_ContextDecimals ==
  fnPc = "applied" =>
    \A i \in 1..Len(fnRet) :
      LET t == VaultTokens[fnRet[i].vaultAddress]
      IN  /\ fnRet[i].info.supplyDecimals = t.supplyDecimals
          /\ fnRet[i].info.borrowDecimals = t.borrowDecimals

\* C28 (as claimed): between setLoading(true) and setLoading(false) the status
\* area is visible.
C28_StatusVisibleWhileLoading ==
  gpc # "idle" => statusArea = "shown"

\* C29 (as claimed): the download area is hidden as long as no generation
\* has succeeded, and after a run that ended in an error.
C29_DownloadOnlyAfterSuccess ==
  /\ currentPdfBlob.isNull => downloadArea = "hidden"
  /\ (gpc = "idle" /\ run.outcome = "error") => downloadArea = "hidden"

\* The rows decoded from the logs fetched for vault v whose NFT id is among
\* the ids owned on that vault.
OwnedRowsOf(v) ==
  UNION { LET decoded == decodeEvent(allLogs[v][i], vaultMap[v].info, prices)
          IN  IF decoded.isNull \/ decoded.nftId \notin vaultMap[v].info.nftIds
              THEN {}
              ELSE { decoded.rows[j] : j \in 1..Len(decoded.rows) } :
          i \in 1..Len(allLogs[v]) }

Occurrences(seq, x) == Cardinality({ i \in 1..Len(seq) : seq[i] = x })

\* C27: the returned ledger holds every row decoded from a fetched log of an
\* owned NFT id exactly once, and no other row, whatever the number of
\* vaults, pages and rate-limit retries.
C27_LedgerIsFilteredConcatenation ==
  pc = "done" =>
    LET expected == UNION { OwnedRowsOf(v) : v \in 1..Len(vaultMap) }
    IN  /\ \A r \in expected : Occurrences(result, r) = 1
        /\ \A i \in 1..Len(result) : result[i] \in expected

\* The positions are on two vaults, and each vault contributed one row of
\* its one fetched log.
C27_Witness ==
  /\ pc = "done"
  /\ Len(vaultMap) = 2
  /\ OwnedRowsOf(1) # {}
  /\ OwnedRowsOf(2) # {}
  /\ Len(result) = 2
  /\ Len(allLogs[1]) + Len(allLogs[2]) = 2

\* One owned row out of a stream fetched in more than one page.
C27_WitnessPages ==
  /\ pc = "done"
  /\ npages[1] >= 2
  /\ Len(allLogs[1]) > MAX_RESULTS_PER_PAGE
  /\ Len(result) = 1

\* A rate-limited request was repeated, and the ledger has both rows of the
\* one fetched event.
C27_WitnessRetry ==
  /\ pc = "done"
  /\ Len(vaultMap) = 1
  /\ nreq[1] >= 2
  /\ npages[1] = 1
  /\ Len(allLogs[1]) = 1
  /\ Len(result) = 2

\* ------------------------------------------------------------------------
\* serve.js: the request handler
\* ------------------------------------------------------------------------

\* Most path segments in a request URL.
MaxSegments == 3

\* Strings are sequences of characters. __dirname is /srv/app.
DIRNAME == << "/", "s", "r", "v", "/", "a", "p", "p" >>

INDEX_HTML == << "i", "n", "d", "e", "x", ".", "h", "t", "m", "l" >>

\* Segments a request URL is made of: the dot segments, the name of the
\* serving directory, a name that starts with it, and two file names.
UrlSegments ==
  { << ".", "." >>,
    << "." >>,
    << "a", "p", "p" >>,
    << "a", "p", "p", "2" >>,
    << "f", ".", "j", "s" >>,
    << "f", ".", "J", "S" >> }

RECURSIVE SegmentLists(_)
SegmentLists(n) ==
  IF n = 0 THEN { << >> }
  ELSE LET shorter == SegmentLists(n - 1)
       IN  shorter \cup { Append(l, x) : l \in { t \in shorter : Len(t) = n - 1 },
                                         x \in UrlSegments }

\* The string of a list of segments: a slash before each of them.
RECURSIVE PathOf(_)
PathOf(segments) ==
  IF segments = << >> THEN << >>
  ELSE << "/" >> \o Head(segments) \o PathOf(Tail(segments))

\* The segments of a string: the runs of characters between slashes.
RECURSIVE Split(_, _)
Split(string, current) ==
  IF string = << >> THEN IF current = << >> THEN << >> ELSE << current >>
  ELSE IF Head(string) = "/"
       THEN (IF current = << >> THEN << >> ELSE << current >>)
              \o Split(Tail(string), << >>)
       ELSE Split(Tail(string), Append(current, Head(string)))

\* path.normalize on an absolute path: "." is dropped, ".." removes the
\* segment before it and is dropped at the root.
RECURSIVE Resolve(_, _)
Resolve(segments, done) ==
  IF segments = << >> THEN done
  ELSE IF Head(segments) = << "." >> THEN Resolve(Tail(segments), done)
  ELSE IF Head(segments) = << ".", "." >>
       THEN Resolve(Tail(segments),
                    IF done = << >> THEN done
                    ELSE SubSeq(done, 1, Len(done) - 1))
  ELSE Resolve(Tail(segments), Append(done, Head(segments)))

\* path.join(a, b): the two joined with a slash, then normalized.
join(a, b) ==
  LET segments == Resolve(Split(a \o << "/" >> \o b, << >>), << >>)
  IN  IF segments = << >> THEN << "/" >> ELSE PathOf(segments)

\* String.prototype.startsWith
startsWith(string, prefix) ==
  /\ Len(string) >= Len(prefix)
  /\ SubSeq(string, 1, Len(prefix)) = prefix

toLowerCase(string) ==
  [i \in 1..Len(string) |->
     CASE string[i] = "J" -> "j"
       [] string[i] = "S" -> "s"
       [] OTHER -> string[i]]

\* path.extname: from the last dot of the last segment, if that dot is not
\* the segment's first character and the segment is not "..".
extname(path) ==
  LET segments == Split(path, << >>)
      base == IF segments = << >> THEN << >> ELSE segments[Len(segments)]
      dots == { i \in 2..Len(base) : base[i] = "." }
  IN  IF dots = {} \/ base = << ".", "." >> THEN << >>
      ELSE SubSeq(base, CHOOSE i \in dots : \A j \in dots : j <= i, Len(base))

MIME_TYPES(ext) ==
  CASE ext = << ".", "h", "t", "m", "l" >> -> "text/html"
    [] ext = << ".", "j", "s" >> -> "text/javascript"
    [] OTHER -> "application/octet-stream"

\* What fs.readFile may call back with.
ReadOutcomes == { "content", "ENOENT", "EACCES" }

NoResponse == [status |-> 0, contentType |-> "", read |-> << >>]

\* The request handler for a request with this URL, when fs.readFile
\* answers with this outcome.
handleRequest(url, outcome) ==
  LET filePath == join(DIRNAME,
                       IF url = << "/" >> THEN << "/" >> \o INDEX_HTML
                       ELSE url)
  IN  IF ~startsWith(filePath, DIRNAME)
      THEN [status |-> 403, contentType |-> "", read |-> << >>]
      ELSE IF outcome = "ENOENT"
      THEN [status |-> 404, contentType |-> "", read |-> filePath]
      ELSE IF outcome # "content"
      THEN [status |-> 500, contentType |-> "", read |-> filePath]
      ELSE [status |-> 200,
            contentType |-> MIME_TYPES(toLowerCase(extname(filePath))),
            read |-> filePath]

\* Request URLs: "/" and a slash before each of up to MaxSegments segments.
RequestUrls ==
  { IF l = << >> THEN << "/" >> ELSE PathOf(l) : l \in SegmentLists(MaxSegments) }

InitServe ==
  /\ positions = << Position(1, "vaultA") >>
  /\ prices = PriceMap
  /\ chain = [vaultA |-> << >>, vaultB |-> << >>]
  /\ NotCalled
  /\ fnPc = "ready"
  /\ fnArg \in RequestUrls
  /\ fnRet = NoResponse

Request ==
  /\ fnPc = "ready"
  /\ \E outcome \in ReadOutcomes : fnRet' = handleRequest(fnArg, outcome)
  /\ fnPc' = "applied"
  /\ UNCHANGED << main, fnArg >>

NextServe == Request

SpecServe == InitServe /\ [][NextServe]_vars

\* A path is inside the serving directory when it is the directory or its
\* segments continue the directory's segments.
InsideServingDirectory(path) ==
  LET dir == Split(DIRNAME, << >>)
      segments == Split(path, << >>)
  IN  /\ Len(segments) >= Len(dir)
      /\ SubSeq(segments, 1, Len(dir)) = dir

\* C30 (as claimed): a request whose URL resolves to a path outside the
\* serving directory is answered 403, and no file outside the serving
\* directory is read.
C30_NoTraversal ==
  fnPc = "applied" =>
    /\ ~InsideServingDirectory(join(DIRNAME, fnArg)) => fnRet.status = 403
    /\ fnRet.read # << >> => InsideServingDirectory(fnRet.read)

====
